---- MODULE Spec2Model ----
(***************************************************************************)
(* Maliciously secure three-party shuffle (ipa-core, ipa_prf/shuffle/       *)
(* malicious.rs): MAC tagging, semi-honest shuffle, hash-based             *)
(* verification and tag truncation, executed by the helpers H1, H2, H3.    *)
(*                                                                         *)
(* Bit strings (boolean arrays, Gf32Bit elements, serialised bytes) are     *)
(* sets of bit positions, position 0 being the least significant bit of    *)
(* byte 0; XOR is the symmetric difference.  Gf32Bit keeps its full 32-bit *)
(* width.                                                                  *)
(***************************************************************************)
EXTENDS Integers, Sequences, FiniteSets, TLC

\* ------------------------------------------------------------------ bounds
\* largest number of input rows of one invocation
MaxRows == 2
\* the largest PRSS seed; at most one of the three seeds is not zero
MaxSeed == 1
\* the seed of the randomness the caller shares the input rows with
ShareSeed == 1
\* largest shard count and shard index of a configuration under check
MaxShards == 4
\* the largest active_work of a context
MaxActiveWork == 2
\* most bits an input of less_than_prime has above the bit length of the prime
MaxExtraBits == 2
\* most bits of a factor of integer_mul
MaxMulBits == 3
\* most bytes of the body of a request to the mul handler
MaxBodyLen == 4

\* ------------------------------------------------------------ Gf32Bit field
\* number of bits of a Gf32Bit element and of the MAC tag
TagBits == 32

Gf32Bit_ZERO == {}
Gf32Bit_ONE == {0}

\* addition of bit strings (XOR)
Xor(a, b) == (a \ b) \cup (b \ a)

MaxOf(s) == CHOOSE e \in s : \A f \in s : f <= e

\* reduction modulo x^32 + x^7 + x^3 + x^2 + 1
RECURSIVE GfReduce(_)
GfReduce(p) ==
    LET hi == {e \in p : e >= TagBits}
    IN  IF hi = {} THEN p
        ELSE LET e == MaxOf(hi)
             IN  GfReduce(Xor(p, {e, e - 25, e - 29, e - 30, e - 32}))

\* multiplication in GF(2^32): for every bit i of a, b shifted by i, reduced,
\* all added up
RECURSIVE GfMul(_, _)
GfMul(a, b) ==
    IF a = {} \/ b = {} THEN {}
    ELSE LET i == MaxOf(a)
         IN  Xor(GfReduce({i + j : j \in b}), GfMul(a \ {i}, b))

\* sum of a sequence of field elements
RECURSIVE GfSum(_)
GfSum(s) == IF s = <<>> THEN Gf32Bit_ZERO ELSE Xor(Head(s), GfSum(Tail(s)))

\* --------------------------------------------------------- boolean arrays
\* serialised size in bytes of a boolean array of `bits` bits
Bytes(bits) == (bits + 7) \div 8

\* S::deserialize fails when a padding bit at or above BITS is set
DeserializeFails(bytes, bits) == \E p \in bytes : p >= bits

DeserializeOrDefaultKeepsBits(bytes, bits) == {p \in bytes : p < bits}

\* S::deserialize(..).unwrap_or_default()
DeserializeOrDefault(bytes, bits) ==
    IF DeserializeFails(bytes, bits) THEN {} ELSE bytes

\* BooleanArray -> Vec<Gf32Bit>: ceil(bits/32) little-endian 32-bit chunks
to_gf32bit(row, bits) ==
    [j \in 1..((bits + 31) \div 32) |->
        {p - TagBits * (j - 1) :
            p \in {q \in row : q >= TagBits * (j - 1) /\ q < TagBits * j}}]

\* a replicated share is <<left, right>>
Left(sh) == sh[1]
Right(sh) == sh[2]

\* split_row_and_tag panics when the tag slice is not 4 bytes long
\* (GenericArray::from_slice)
split_row_and_tag_panics(sbits, bbits) == Bytes(bbits) - Bytes(sbits) # 4

split_row_and_tagWrongOffset(row_with_tag, sbits, bbits) ==
    LET tag_offset == Bytes(sbits) - 1
    IN  <<DeserializeOrDefault({p \in row_with_tag : p < 8 * tag_offset}, sbits),
          {p - 8 * tag_offset : p \in {q \in row_with_tag : q >= 8 * tag_offset}}>>

split_row_and_tagDefaultTag(row_with_tag, sbits, bbits) ==
    LET tag_offset == Bytes(sbits)
    IN  <<DeserializeOrDefault({p \in row_with_tag : p < 8 * tag_offset}, sbits),
          Gf32Bit_ZERO>>

\* split_row_and_tag: the first (S::BITS+7)/8 bytes are the row, the rest the
\* tag; a row that fails to deserialize is the default value
split_row_and_tag(row_with_tag, sbits, bbits) ==
    LET tag_offset == Bytes(sbits)
    IN  <<DeserializeOrDefault({p \in row_with_tag : p < 8 * tag_offset}, sbits),
          {p - 8 * tag_offset : p \in {q \in row_with_tag : q >= 8 * tag_offset}}>>

truncate_tagsLeftTwice(shares_and_tags, sbits, bbits) ==
    [i \in 1..Len(shares_and_tags) |->
        <<split_row_and_tag(Left(shares_and_tags[i]), sbits, bbits)[1],
          split_row_and_tag(Left(shares_and_tags[i]), sbits, bbits)[1]>>]

\* truncate_tags: the row part of both shares of every tagged row
truncate_tags(shares_and_tags, sbits, bbits) ==
    [i \in 1..Len(shares_and_tags) |->
        <<split_row_and_tag(Left(shares_and_tags[i]), sbits, bbits)[1],
          split_row_and_tag(Right(shares_and_tags[i]), sbits, bbits)[1]>>]

\* the bytes concatenate_row_and_tag collects for one share: the row bytes
\* followed by the 4 tag bytes
ConcatBytes(row, tag, sbits) == row \cup {8 * Bytes(sbits) + p : p \in tag}

concatenate_row_and_tag_panicsOnBadBitsOnly(row, tag, sbits, bbits) ==
    \/ DeserializeFails(ConcatBytes(Left(row), Left(tag), sbits), bbits)
    \/ DeserializeFails(ConcatBytes(Right(row), Right(tag), sbits), bbits)

\* concatenate_row_and_tag panics when the byte count is not B's (collect
\* into GenericArray) or the bytes do not deserialise as B (unwrap)
concatenate_row_and_tag_panics(row, tag, sbits, bbits) ==
    \/ Bytes(sbits) + 4 # Bytes(bbits)
    \/ DeserializeFails(ConcatBytes(Left(row), Left(tag), sbits), bbits)
    \/ DeserializeFails(ConcatBytes(Right(row), Right(tag), sbits), bbits)

concatenate_row_and_tagAtRowBits(row, tag, sbits, bbits) ==
    <<Left(row) \cup {sbits - 1 + p : p \in Left(tag)},
      Right(row) \cup {sbits - 1 + p : p \in Right(tag)}>>

concatenate_row_and_tag(row, tag, sbits, bbits) ==
    <<ConcatBytes(Left(row), Left(tag), sbits),
      ConcatBytes(Right(row), Right(tag), sbits)>>

\* ----------------------------------------------------------------- hashing
\* compute_possibly_empty_hash: a collision-free digest of a sequence of
\* field elements, defined for the empty sequence too
compute_possibly_empty_hash(vals) == <<"hash", Len(vals), vals>>

InnerProductSkipsKeys(entries, keys) ==
    LET n == IF Len(entries) < Len(keys) THEN Len(entries) ELSE Len(keys)
    IN  GfSum([j \in 1..n |-> entries[j]])

\* inner product of the entries of a row (tag included) with the keys; zip
\* stops at the shorter of the two
InnerProduct(entries, keys) ==
    LET n == IF Len(entries) < Len(keys) THEN Len(entries) ELSE Len(keys)
    IN  GfSum([j \in 1..n |-> GfMul(entries[j], keys[j])])

RowValueSkipsTag(keys, row_with_tag, sbits, bbits) ==
    LET rt == split_row_and_tag(row_with_tag, sbits, bbits)
    IN  InnerProduct(to_gf32bit(rt[1], sbits), keys)

\* the per-row value compute_and_hash_tags feeds into the hash
RowValue(keys, row_with_tag, sbits, bbits) ==
    LET rt == split_row_and_tag(row_with_tag, sbits, bbits)
    IN  InnerProduct(to_gf32bit(rt[1], sbits) \o <<rt[2]>>, keys)

compute_and_hash_tags(keys, rows, sbits, bbits) ==
    compute_possibly_empty_hash(
        [i \in 1..Len(rows) |-> RowValue(keys, rows[i], sbits, bbits)])


\* ------------------------------------------------------- roles and parties
Helpers == {1, 2, 3}
\* Role::peer(Direction::Right) and Role::peer(Direction::Left)
RightOf(h) == (h % 3) + 1
LeftOf(h) == ((h + 1) % 3) + 1

VARIABLES
    entry,       \* "single": malicious_shuffle; "sharded": malicious_sharded_shuffle
    widths,      \* <<S::BITS, B::BITS>> of the invocation
    active_work, \* ctx.active_work(): the rows compute_and_add_tags tags at a time
    seeds,       \* seeds[h]: the PRSS seed shared by h and RightOf(h)
    records,     \* the clear-text input rows
    pc,          \* pc[h]: where helper h is in malicious_shuffle
    keys,        \* keys[h]: the MAC key shares of helper h
    tagged,      \* tagged[h]: shares_and_tags
    local,       \* local[h]: values a helper holds inside shuffle_protocol
    shuffled,    \* shuffled[h]: shuffled_shares
    messages,    \* messages[h]: IntermediateShuffleMessages of helper h
    revealed,    \* revealed[h]: the revealed keys followed by ONE
    compared,    \* compared[h]: the <<label, own hash, received hash>> compared
    vres,        \* vres[h]: what verify_shuffle returned
    result,      \* result[h]: what malicious_shuffle returned
    net,         \* every record sent so far
    steps,       \* steps[h]: the steps helper h began and completed, in order
    rounds,      \* rounds[h]: the kinds of network operation h performed
    attack       \* the single bit flipped in transit, if any

\* the call of a pure function under check: which function, its argument and
\* what it returned
VARIABLES
    call,        \* the name of the function called, "none" in a shuffle run
    arg,         \* the argument of the call
    ret          \* the value returned, NotReturned before the call is made

\* the error of a send, receive, multiplication, shuffle step or reveal
VARIABLES
    failure      \* failure[h]: the error a primitive of helper h failed with

\* setup_keys on the shards of one helper
VARIABLES
    num_shards,  \* shard_count: the number of shards of the helper
    n_keys,      \* amount_of_keys
    skpc,        \* skpc[s]: where shard s is in setup_keys
    sknext,      \* the shard the first shard sends the keys to next
    skeys,       \* skeys[s]: the keys shard s generated or has collected
    chan,        \* chan[s]: the records sent on the channel from shard 0 to s
    closed,      \* closed[s]: "open", or how the channel from shard 0 to s closed early
    skres        \* skres[s]: what setup_keys returned on shard s

shard_vars == <<num_shards, n_keys, skpc, sknext, skeys, chan, closed, skres>>

\* malicious_sharded_shuffle on two shards of every helper; f[h][s] belongs
\* to shard s of helper h
VARIABLES
    in_split,    \* the first in_split input rows are on shard 0, the rest on shard 1
    out_split,   \* the first out_split shuffled rows end on shard 0, the rest on shard 1
    shpc,        \* shpc[h][s]: where shard s of helper h is
    shkeys,      \* shkeys[h][s]: the MAC key shares
    shtagged,    \* shtagged[h][s]: shares_and_tags
    shshuffled,  \* shshuffled[h][s]: shuffled_shares
    shmessages,  \* shmessages[h][s]: IntermediateShuffleMessages
    shvres,      \* shvres[h][s]: what verify_shuffle returned
    shresult     \* shresult[h][s]: what malicious_sharded_shuffle returned

sharded_vars == <<in_split, out_split, shpc, shkeys, shtagged, shshuffled,
                  shmessages, shvres, shresult>>

\* the exchange of verify_shuffle with the delivery of its messages
VARIABLES
    hashes,      \* the hash each role computed for each of its tables
    delivered,   \* the records that reached their receiver
    arrival,     \* the hash records that reached H1, in the order they did
    declared     \* the total record counts declared: <<step, role, side, total>>

verify_vars == <<hashes, delivered, arrival, declared>>

\* a direct call of compute_and_add_tags: the rows it tags side by side
VARIABLES
    jpc,         \* where the call is
    started,     \* the number of rows whose tagging has begun
    completed,   \* the rows whose tagging has finished
    yielded      \* the rows handed to the result, in the order they were

join_vars == <<jpc, started, completed, yielded>>

\* the variables a step of setup_keys on a shard leaves alone
non_shard_vars == <<entry, widths, active_work, seeds, records, pc, keys, tagged, local, shuffled,
                    messages, revealed, compared, vres, result, net, steps, rounds,
                    attack, call, arg, ret, failure, sharded_vars, verify_vars,
                    join_vars>>

\* the variables a step of the shuffle leaves alone
aux == <<call, arg, ret, failure, shard_vars, join_vars, sharded_vars, verify_vars>>

\* the variables of a shuffle invocation
shuffle_vars == <<entry, widths, active_work, seeds, records, pc, keys, tagged, local, shuffled,
                  messages, revealed, compared, vres, result, net, steps, rounds,
                  attack>>

shuffle_vars_but_pc == <<entry, widths, active_work, seeds, records, keys, tagged, local, shuffled,
                         messages, revealed, compared, vres, result, net, steps,
                         rounds, attack>>

shuffle_vars_but_pc_net == <<entry, widths, active_work, seeds, records, keys, tagged, local,
                             shuffled, messages, revealed, compared, vres, result,
                             steps, rounds, attack>>

vars == <<entry, widths, active_work, seeds, records, pc, keys, tagged, local, shuffled, messages,
          revealed, compared, vres, result, net, steps, rounds, attack, aux>>

SBITS == widths[1]
BBITS == widths[2]

\* ------------------------------------------------------------------- PRSS
GateNo == [keys |-> 0, mul |-> 1, z |-> 2, ahat |-> 3, bhat |-> 4,
           perm |-> 5, in1 |-> 6, in2 |-> 4]

\* the value the PRSS with seed `seed` yields on gate `gate` for index idx
PrssGen(seed, gate, idx) ==
    LET v == ((seed + idx) * (GateNo[gate] + 1)) % 8
    IN  (IF v % 2 = 1 THEN {0} ELSE {})
        \cup (IF (v \div 2) % 2 = 1 THEN {1} ELSE {})
        \cup (IF v \div 4 = 1 THEN {TagBits - 1} ELSE {})

SeedRight(h) == seeds[h]
SeedLeft(h) == seeds[LeftOf(h)]

\* a table of n pseudo-random B values
RandomTable(seed, gate, n) ==
    [i \in 1..n |->
        PrssGen(seed, gate, i)
        \cup {p + BBITS - TagBits : p \in PrssGen(seed, gate, i + 1)}]

\* the permutation drawn from a shared seed: a rotation
Permute(rows, seed, gate) ==
    LET n == Len(rows)
    IN  [i \in 1..n |-> rows[((i - 1 + seed + GateNo[gate]) % n) + 1]]

AddRows(xs, ys) == [i \in 1..Len(xs) |-> Xor(xs[i], ys[i])]

\* ------------------------------------------------------------------ input
RowVals(sbits) == {{}, {0, sbits - 1}}

RECURSIVE SeqsUpTo(_, _)
SeqsUpTo(S, n) ==
    IF n = 0 THEN {<<>>}
    ELSE LET shorter == SeqsUpTo(S, n - 1)
         IN  shorter \cup {Append(q, x) : q \in {r \in shorter : Len(r) = n - 1}, x \in S}

\* the entry points and row types exercised: matching widths of one and of
\* two 32-bit columns, a tagged type that is too large and one too small
Configs == {<<"single", <<32, 64>> >>, <<"single", <<64, 96>> >>,
            <<"sharded", <<32, 64>> >>, <<"single", <<32, 112>> >>,
            <<"sharded", <<20, 32>> >>}

\* row types whose width is and is not a multiple of 32, one per entry point
KeyConfigs == {<<"single", <<112, 144>> >>, <<"sharded", <<64, 96>> >>}

\* the replicated sharing of input row i held by helper h
InputShare(h, i) ==
    LET x1 == PrssGen(ShareSeed, "in1", i) \cap (0..(SBITS - 1))
        x2 == PrssGen(ShareSeed, "in2", i) \cap (0..(SBITS - 1))
        x3 == Xor(records[i], Xor(x1, x2))
    IN  CASE h = 1 -> <<x1, x2>>
          [] h = 2 -> <<x2, x3>>
          [] h = 3 -> <<x3, x1>>

InputShares(h) == [i \in 1..Len(records) |-> InputShare(h, i)]

NoAttack == [ch |-> "none", row |-> 0, bit |-> 0]
\* no attacker is present: nothing is tampered with in the whole run
NoAttacker == [ch |-> "off", row |-> 0, bit |-> 0]
NoResult == [status |-> "Pending", reason |-> "", rows |-> <<>>]
NoLocal == [y1 |-> <<>>, x2 |-> <<>>, y2 |-> <<>>, c_hat |-> <<>>, hat |-> <<>>]
NoMessages == [x1 |-> <<>>, x2 |-> <<>>, y1 |-> <<>>, y2 |-> <<>>]

NotReturned == [status |-> "Pending"]

\* no pure function is under check during a shuffle run
NoCall == call = "none" /\ arg = <<>> /\ ret = NotReturned

\* malicious_sharded_shuffle is not running on two shards
NoSharded ==
    /\ in_split = 0 /\ out_split = 0
    /\ shpc = <<>> /\ shkeys = <<>> /\ shtagged = <<>> /\ shshuffled = <<>>
    /\ shmessages = <<>> /\ shvres = <<>> /\ shresult = <<>>

\* verify_shuffle is not run with the delivery of its messages
NoVerify == hashes = <<>> /\ delivered = {} /\ arrival = <<>> /\ declared = {}

NoJoin == jpc = "idle" /\ started = 0 /\ completed = {} /\ yielded = <<>>

\* no primitive has failed
NoFailure == failure = [h \in Helpers |-> NoResult]

\* setup_keys is not running on several shards
NoShards ==
    /\ num_shards = 1 /\ n_keys = 0 /\ sknext = 0
    /\ skpc = <<>> /\ skeys = <<>> /\ chan = <<>> /\ closed = <<>> /\ skres = <<>>

\* the PRSS seeds of the three pairs of helpers: all zero, or one of them up
\* to MaxSeed
SeedVectors ==
    {[h \in Helpers |-> IF h = k THEN v ELSE 0] : k \in Helpers, v \in 0..MaxSeed}

\* the seeds and the active_work of a run: every seed vector with the
\* largest active_work, and every smaller active_work with the zero seeds
SeedsAndWork ==
    \/ /\ active_work = MaxActiveWork
       /\ seeds \in SeedVectors
    \/ /\ active_work \in 1..(MaxActiveWork - 1)
       /\ seeds = [h \in Helpers |-> 0]

\* a run of an entry point; the transfers of shuffle_protocol can be
\* tampered with in the runs of malicious_shuffle and, under the largest
\* seed of H1, in those of malicious_sharded_shuffle
InitOf(configs) ==
    /\ \E c \in configs : entry = c[1] /\ widths = c[2]
    /\ SeedsAndWork
    /\ records \in SeqsUpTo(RowVals(widths[1]), MaxRows)
    /\ pc = [h \in Helpers |-> "start"]
    /\ keys = [h \in Helpers |-> <<>>]
    /\ tagged = [h \in Helpers |-> <<>>]
    /\ local = [h \in Helpers |-> NoLocal]
    /\ shuffled = [h \in Helpers |-> <<>>]
    /\ messages = [h \in Helpers |-> NoMessages]
    /\ revealed = [h \in Helpers |-> <<>>]
    /\ compared = [h \in Helpers |-> <<>>]
    /\ vres = [h \in Helpers |-> NoResult]
    /\ result = [h \in Helpers |-> NoResult]
    /\ net = {}
    /\ steps = [h \in Helpers |-> <<>>]
    /\ rounds = [h \in Helpers |-> {}]
    /\ attack = IF entry = "single" \/ seeds[1] = MaxSeed THEN NoAttack ELSE NoAttacker
    /\ NoCall
    /\ NoFailure
    /\ NoVerify
    /\ NoJoin
    /\ NoShards
    /\ NoSharded

Init == InitOf(Configs)

\* the single-shard helpers H1, H2, H3 have not been invoked
HelpersHoldNothing ==
    /\ keys = [h \in Helpers |-> <<>>]
    /\ tagged = [h \in Helpers |-> <<>>]
    /\ local = [h \in Helpers |-> NoLocal]
    /\ shuffled = [h \in Helpers |-> <<>>]
    /\ messages = [h \in Helpers |-> NoMessages]
    /\ revealed = [h \in Helpers |-> <<>>]
    /\ compared = [h \in Helpers |-> <<>>]
    /\ vres = [h \in Helpers |-> NoResult]
    /\ result = [h \in Helpers |-> NoResult]
    /\ net = {}
    /\ steps = [h \in Helpers |-> <<>>]
    /\ rounds = [h \in Helpers |-> {}]
    /\ attack = NoAttack

HelpersIdle ==
    /\ pc = [h \in Helpers |-> "idle"]
    /\ HelpersHoldNothing

\* no shuffle is running while a pure function is under check
ShuffleIdle ==
    /\ entry = "none"
    /\ active_work = 1
    /\ widths = <<TagBits, 2 * TagBits>>
    /\ seeds = [h \in Helpers |-> 0]
    /\ records = <<>>
    /\ HelpersIdle

\* ---------------------------------------------------------------- channels
Msg(gate, src, dst, rid, val) ==
    [gate |-> gate, src |-> src, dst |-> dst, rid |-> rid, val |-> val]

Sent(gate, src, dst, rid) ==
    \E m \in net : m.gate = gate /\ m.src = src /\ m.dst = dst /\ m.rid = rid

Received(gate, src, dst, rid) ==
    (CHOOSE m \in net : m.gate = gate /\ m.src = src /\ m.dst = dst /\ m.rid = rid).val

Log(h, what) == steps' = [steps EXCEPT ![h] = @ \o what]
Did(h, kind) == rounds' = [rounds EXCEPT ![h] = @ \cup {kind}]

Err(reason) == [status |-> "Err", reason |-> reason, rows |-> <<>>]
Ok(rows) == [status |-> "Ok", reason |-> "", rows |-> rows]
Panic == [status |-> "Panic", reason |-> "", rows |-> <<>>]

\* --------------------------------------------------- tampering in transit
\* the bit positions of a tagged row an attacker may flip: the first and the
\* last bit of the row part and the last bit of the tag
FlipBits == {0, SBITS - 1, BBITS - 1}

\* the ways the transfer ch can deliver `payload` to its receiver: intact, or, if nothing was
\* tampered with before, with one bit of the last row flipped
Transits(ch, payload) ==
    {NoAttack} \cup
    (IF attack.ch = "none"
     THEN {[ch |-> ch, row |-> Len(payload), bit |-> b] : b \in FlipBits}
     ELSE {})

Tamper(payload, a) ==
    IF a.ch = "none" THEN payload
    ELSE [payload EXCEPT ![a.row] = Xor(@, {a.bit})]

Attacked(a) == attack' = IF a.ch = "none" THEN attack ELSE a

\* ------------------------------------------------------------- entry point
AssertWidthsSkipped(h) ==
    /\ pc[h] = "start"
    /\ pc' = [pc EXCEPT ![h] = "keys"]
    /\ UNCHANGED <<aux, entry, widths, active_work, seeds, records, keys, tagged, local, shuffled,
                   messages, revealed, compared, vres, result, net, steps,
                   rounds, attack>>

\* assert_eq!(S::BITS + 32, B::BITS)
AssertWidths(h) ==
    /\ pc[h] = "start"
    /\ IF SBITS + TagBits = BBITS
       THEN /\ pc' = [pc EXCEPT ![h] = "keys"]
            /\ UNCHANGED result
       ELSE /\ pc' = [pc EXCEPT ![h] = "panicked"]
            /\ result' = [result EXCEPT ![h] = Panic]
    /\ UNCHANGED <<aux, entry, widths, active_work, seeds, records, keys, tagged, local, shuffled,
                   messages, revealed, compared, vres, net, steps, rounds, attack>>

amount_of_keysRoundsDown(sbits) == sbits \div 32

\* amount_of_keys = (S::BITS + 31) / 32
amount_of_keys(sbits) == (sbits + 31) \div 32

\* ctx.prss().generate(RecordId::from(i)) for i in 0..amount_of_keys
PrssKeys(h, n) ==
    [i \in 1..n |-> <<PrssGen(SeedLeft(h), "keys", i - 1),
                      PrssGen(SeedRight(h), "keys", i - 1)>>]

\* malicious_shuffle: generate the MAC keys
GenerateKeys(h) ==
    /\ entry = "single"
    /\ pc[h] = "keys"
    /\ keys' = [keys EXCEPT ![h] = PrssKeys(h, amount_of_keys(SBITS))]
    /\ pc' = [pc EXCEPT ![h] = "tag"]
    /\ Log(h, <<"keys", "keys_done">>)
    /\ UNCHANGED <<aux, entry, widths, active_work, seeds, records, tagged, local, shuffled,
                   messages, revealed, compared, vres, result, net, rounds, attack>>

\* malicious_sharded_shuffle: setup_keys on the first shard of a helper with
\* one shard: it generates the keys, and the loop over the other shards
\* sends nothing
setup_keys(h) ==
    /\ entry = "sharded"
    /\ pc[h] = "keys"
    /\ keys' = [keys EXCEPT ![h] = PrssKeys(h, amount_of_keys(SBITS))]
    /\ pc' = [pc EXCEPT ![h] = "tag"]
    /\ Log(h, <<"keys", "keys_done">>)
    /\ UNCHANGED <<aux, entry, widths, active_work, seeds, records, tagged, local, shuffled,
                   messages, revealed, compared, vres, result, net, rounds, attack>>

\* ------------------------------------------------------------------ tagging
\* semi_honest_multiply: the masked value d sent to the right helper
MulSend(h, rid, a, b) ==
    Xor(Xor(GfMul(Left(a), Right(b)), GfMul(Right(a), Left(b))),
        PrssGen(SeedLeft(h), "mul", rid))

\* semi_honest_multiply: the share of the product, given the left helper's d
MulShare(h, rid, a, b, left_d) ==
    <<Xor(Xor(GfMul(Left(a), Left(b)), left_d), PrssGen(SeedLeft(h), "mul", rid)),
      Xor(Xor(GfMul(Right(a), Right(b)), MulSend(h, rid, a, b)),
          PrssGen(SeedRight(h), "mul", rid))>>

\* row.to_gf32bit(): the shares of the 32-bit entries of a row share
ShareEntries(row, sbits) ==
    [j \in 1..Len(to_gf32bit(Left(row), sbits)) |->
        <<to_gf32bit(Left(row), sbits)[j], to_gf32bit(Right(row), sbits)[j]>>]

\* TotalRecords::specified(length * row_length) of the tagging context
tag_total_records(length, row_length) == length * row_length

MulRecordIdSkipsOne(i, j, row_length) == i * (row_length + 1) + j

\* RecordId::from(i * row_length + j)
MulRecordId(i, j, row_length) == i * row_length + j

\* row_entries_iterator.zip(keys): the columns multiplied for one row
Columns(h, row) ==
    LET n == Len(ShareEntries(row, SBITS))
    IN  1..(IF n < Len(keys[h]) THEN n ELSE Len(keys[h]))

AddShares(x, y) == <<Xor(Left(x), Left(y)), Xor(Right(x), Right(y))>>

RECURSIVE SumShares(_)
SumShares(s) ==
    IF s = <<>> THEN <<Gf32Bit_ZERO, Gf32Bit_ZERO>>
    ELSE AddShares(Head(s), SumShares(Tail(s)))

row_tagDropsLast(products) ==
    SumShares(SubSeq(products, 1, Len(products) - 1))

\* .fold(AdditiveShare::ZERO, |acc, x| acc + x): the tag share of a row
row_tag(products) == SumShares(products)

\* the records the multiplications of row i send to the right helper
TagSends(h, i) ==
    LET rows == InputShares(h)
        row_length == Len(keys[h])
    IN  {Msg("mul", h, RightOf(h), MulRecordId(i - 1, j - 1, row_length),
             MulSend(h, MulRecordId(i - 1, j - 1, row_length),
                     ShareEntries(rows[i], SBITS)[j], keys[h][j])) :
            j \in Columns(h, rows[i])}

\* the rows seq_join begins when it is first polled: the first active_work
\* rows, or all of them when they are fewer
FirstWindow(h) ==
    1..(IF active_work < Len(records) THEN active_work ELSE Len(records))

compute_and_add_tags_sendNoEmptyCheck(h) ==
    /\ pc[h] = "tag"
    /\ net' = net \cup UNION {TagSends(h, i) : i \in FirstWindow(h)}
    /\ pc' = [pc EXCEPT ![h] = "tag_wait"]
    /\ Log(h, <<"tag">>)
    /\ Did(h, "mul")
    /\ UNCHANGED <<aux, entry, widths, active_work, seeds, records, keys, tagged, local, shuffled,
                   messages, revealed, compared, vres, result, attack>>

\* compute_and_add_tags up to the first wait: on no rows it returns at once,
\* otherwise seq_join begins the first active_work rows, whose
\* multiplications send their records
compute_and_add_tags_send(h) ==
    /\ pc[h] = "tag"
    /\ IF Len(records) = 0
       THEN /\ pc' = [pc EXCEPT ![h] = "shuffle"]
            /\ Log(h, <<"tag", "tag_done">>)
            /\ UNCHANGED <<net, rounds>>
       ELSE /\ net' = net \cup UNION {TagSends(h, i) : i \in FirstWindow(h)}
            /\ pc' = [pc EXCEPT ![h] = "tag_wait"]
            /\ Log(h, <<"tag">>)
            /\ Did(h, "mul")
    /\ UNCHANGED <<aux, entry, widths, active_work, seeds, records, keys, tagged, local, shuffled,
                   messages, revealed, compared, vres, result, attack>>

\* compute_and_add_tags from one wait to the next: the values of the left
\* helper for the oldest row not yet yielded have arrived, the row is
\* concatenated with its tag and yielded, and seq_join begins the row that
\* takes its place; after the last row the call returns
compute_and_add_tags_recv(h) ==
    /\ pc[h] = "tag_wait"
    /\ Len(tagged[h]) < Len(records)
    /\ LET rows == InputShares(h)
           row_length == Len(keys[h])
           i == Len(tagged[h]) + 1
           products ==
               [j \in Columns(h, rows[i]) |->
                   MulShare(h, MulRecordId(i - 1, j - 1, row_length),
                            ShareEntries(rows[i], SBITS)[j], keys[h][j],
                            Received("mul", LeftOf(h), h,
                                     MulRecordId(i - 1, j - 1, row_length)))]
       IN  /\ \A j \in Columns(h, rows[i]) :
                  Sent("mul", LeftOf(h), h, MulRecordId(i - 1, j - 1, row_length))
           /\ IF concatenate_row_and_tag_panics(rows[i], row_tag(products), SBITS, BBITS)
              THEN /\ pc' = [pc EXCEPT ![h] = "panicked"]
                   /\ result' = [result EXCEPT ![h] = Panic]
                   /\ UNCHANGED <<tagged, steps, net>>
              ELSE /\ tagged' = [tagged EXCEPT ![h] =
                         Append(@, concatenate_row_and_tag(rows[i], row_tag(products),
                                                           SBITS, BBITS))]
                   /\ net' = IF i + active_work <= Len(rows)
                             THEN net \cup TagSends(h, i + active_work)
                             ELSE net
                   /\ IF i = Len(rows)
                      THEN /\ pc' = [pc EXCEPT ![h] = "shuffle"]
                           /\ Log(h, <<"tag_done">>)
                      ELSE UNCHANGED <<pc, steps>>
                   /\ UNCHANGED result
    /\ UNCHANGED <<aux, entry, widths, active_work, seeds, records, keys, local, shuffled, messages,
                   revealed, compared, vres, rounds, attack>>


\* ------------------------------------------------------------------ shuffle
Lefts(rows) == [i \in 1..Len(rows) |-> Left(rows[i])]
Rights(rows) == [i \in 1..Len(rows) |-> Right(rows[i])]
Combine(ls, rs) == [i \in 1..Len(ls) |-> <<ls[i], rs[i]>>]

\* the random tables of the shuffle: z_12, z_23, z_31 are shared by the two
\* helpers named, a_hat by H1 and H3, b_hat by H1 and H2
Z12(n) == RandomTable(seeds[1], "z", n)
Z23(n) == RandomTable(seeds[2], "z", n)
Z31(n) == RandomTable(seeds[3], "z", n)
AHat(n) == RandomTable(seeds[3], "ahat", n)
BHat(n) == RandomTable(seeds[1], "bhat", n)

\* shuffle_protocol on no rows: no message, empty output
ShuffleEmpty(h) ==
    /\ shuffled' = [shuffled EXCEPT ![h] = <<>>]
    /\ messages' = [messages EXCEPT ![h] = NoMessages]
    /\ pc' = [pc EXCEPT ![h] = "verify"]
    /\ Log(h, <<"shuffle", "shuffle_done">>)
    /\ UNCHANGED <<local, net, rounds, attack>>

\* H1: x1 = pi_12(a + b + z_12), x2 = pi_31(x1 + z_31) goes to H2
run_h1(h) ==
    /\ h = 1 /\ pc[h] = "shuffle"
    /\ LET n == Len(tagged[h])
           x1 == Permute(AddRows(AddRows(Lefts(tagged[h]), Rights(tagged[h])), Z12(n)),
                         seeds[1], "perm")
           x2 == Permute(AddRows(x1, Z31(n)), seeds[3], "perm")
       IN  IF n = 0 THEN ShuffleEmpty(h)
           ELSE /\ net' = net \cup {Msg("transfer_x_y", h, 2, 0, x2)}
                /\ shuffled' = [shuffled EXCEPT ![h] = Combine(AHat(n), BHat(n))]
                /\ messages' = [messages EXCEPT ![h].x1 = x1]
                /\ pc' = [pc EXCEPT ![h] = "verify"]
                /\ Log(h, <<"shuffle", "shuffle_done">>)
                /\ Did(h, "shuffle")
                /\ UNCHANGED <<local, attack>>
    /\ UNCHANGED <<aux, entry, widths, active_work, seeds, records, keys, tagged, revealed, compared,
                   vres, result>>

\* H2: y1 = pi_12(c + z_12) goes to H3
run_h2_send_y1(h) ==
    /\ h = 2 /\ pc[h] = "shuffle"
    /\ LET n == Len(tagged[h])
           y1 == Permute(AddRows(Rights(tagged[h]), Z12(n)), seeds[1], "perm")
       IN  IF n = 0 THEN ShuffleEmpty(h)
           ELSE /\ net' = net \cup {Msg("transfer_x_y", h, 3, 0, y1)}
                /\ pc' = [pc EXCEPT ![h] = "shuffle_x2"]
                /\ Log(h, <<"shuffle">>)
                /\ Did(h, "shuffle")
                /\ UNCHANGED <<local, shuffled, messages, attack>>
    /\ UNCHANGED <<aux, entry, widths, active_work, seeds, records, keys, tagged, revealed, compared,
                   vres, result>>

\* H2: on x2 from H1, x3 = pi_23(x2 + z_23), c_hat_1 = x3 + b_hat goes to H3
run_h2_recv_x2(h) ==
    /\ h = 2 /\ pc[h] = "shuffle_x2"
    /\ Sent("transfer_x_y", 1, h, 0)
    /\ \E a \in Transits("x2", Received("transfer_x_y", 1, h, 0)) :
         LET x2 == Tamper(Received("transfer_x_y", 1, h, 0), a)
             n == Len(x2)
             x3 == Permute(AddRows(x2, Z23(n)), seeds[2], "perm")
             c_hat_1 == AddRows(x3, BHat(n))
         IN  /\ net' = net \cup {Msg("transfer_c", h, 3, 0, c_hat_1)}
             /\ Attacked(a)
             /\ local' = [local EXCEPT ![h].x2 = x2, ![h].c_hat = c_hat_1,
                                       ![h].hat = BHat(n)]
    /\ pc' = [pc EXCEPT ![h] = "shuffle_c"]
    /\ UNCHANGED <<aux, entry, widths, active_work, seeds, records, keys, tagged, shuffled, messages,
                   revealed, compared, vres, result, steps, rounds>>

\* H2: on c_hat_2 from H3, c = c_hat_1 + c_hat_2; the output is (b_hat, c)
run_h2_recv_c(h) ==
    /\ h = 2 /\ pc[h] = "shuffle_c"
    /\ Sent("transfer_c", 3, h, 0)
    /\ \E a \in Transits("c", Received("transfer_c", 3, h, 0)) :
         LET c_hat_2 == Tamper(Received("transfer_c", 3, h, 0), a)
             c == AddRows(local[h].c_hat, c_hat_2)
         IN  /\ shuffled' = [shuffled EXCEPT ![h] = Combine(local[h].hat, c)]
             /\ Attacked(a)
    /\ messages' = [messages EXCEPT ![h].x2 = local[h].x2]
    /\ pc' = [pc EXCEPT ![h] = "verify"]
    /\ Log(h, <<"shuffle_done">>)
    /\ UNCHANGED <<aux, entry, widths, active_work, seeds, records, keys, tagged, local, revealed,
                   compared, vres, result, net, rounds>>

\* H3: on y1 from H2, y2 = pi_31(y1 + z_31), y3 = pi_23(y2 + z_23),
\* c_hat_2 = y3 + a_hat goes to H2
run_h3_recv_y1(h) ==
    /\ h = 3 /\ pc[h] = "shuffle"
    /\ IF Len(tagged[h]) = 0 THEN ShuffleEmpty(h)
       ELSE /\ Sent("transfer_x_y", 2, h, 0)
            /\ \E a \in Transits("y1", Received("transfer_x_y", 2, h, 0)) :
                 LET y1 == Tamper(Received("transfer_x_y", 2, h, 0), a)
                     n == Len(y1)
                     y2 == Permute(AddRows(y1, Z31(n)), seeds[3], "perm")
                     y3 == Permute(AddRows(y2, Z23(n)), seeds[2], "perm")
                     c_hat_2 == AddRows(y3, AHat(n))
                 IN  /\ net' = net \cup {Msg("transfer_c", h, 2, 0, c_hat_2)}
                     /\ Attacked(a)
                     /\ local' = [local EXCEPT ![h].y1 = y1, ![h].y2 = y2,
                                               ![h].c_hat = c_hat_2, ![h].hat = AHat(n)]
            /\ pc' = [pc EXCEPT ![h] = "shuffle_c"]
            /\ Log(h, <<"shuffle">>)
            /\ Did(h, "shuffle")
            /\ UNCHANGED <<shuffled, messages>>
    /\ UNCHANGED <<aux, entry, widths, active_work, seeds, records, keys, tagged, revealed, compared,
                   vres, result>>

\* H3: on c_hat_1 from H2, c = c_hat_1 + c_hat_2; the output is (c, a_hat)
run_h3_recv_c(h) ==
    /\ h = 3 /\ pc[h] = "shuffle_c"
    /\ Sent("transfer_c", 2, h, 0)
    /\ LET c == AddRows(Received("transfer_c", 2, h, 0), local[h].c_hat)
       IN  shuffled' = [shuffled EXCEPT ![h] = Combine(c, local[h].hat)]
    /\ messages' = [messages EXCEPT ![h].y1 = local[h].y1, ![h].y2 = local[h].y2]
    /\ pc' = [pc EXCEPT ![h] = "verify"]
    /\ Log(h, <<"shuffle_done">>)
    /\ UNCHANGED <<aux, entry, widths, active_work, seeds, records, keys, tagged, local, revealed,
                   compared, vres, result, net, rounds, attack>>


\* -------------------------------------------------------------- verification
reveal_keys_sendEarly(h) ==
    /\ pc[h] \in {"shuffle", "verify"}
    /\ net' = net \cup
          {Msg("reveal", h, RightOf(h), i - 1, Left(keys[h][i])) : i \in 1..Len(keys[h])}
          \cup
          {Msg("reveal", h, LeftOf(h), i - 1, Right(keys[h][i])) : i \in 1..Len(keys[h])}
    /\ pc' = [pc EXCEPT ![h] = "reveal_wait"]
    /\ Log(h, <<"verify">>)
    /\ Did(h, "reveal")
    /\ UNCHANGED <<aux, entry, widths, active_work, seeds, records, keys, tagged, local, shuffled,
                   messages, revealed, compared, vres, result, attack>>

\* verify_shuffle begins: malicious_reveal of every key share sends the left
\* share to the right helper and the right share to the left helper
reveal_keys_send(h) ==
    /\ pc[h] = "verify"
    /\ net' = net \cup
          {Msg("reveal", h, RightOf(h), i - 1, Left(keys[h][i])) : i \in 1..Len(keys[h])}
          \cup
          {Msg("reveal", h, LeftOf(h), i - 1, Right(keys[h][i])) : i \in 1..Len(keys[h])}
    /\ pc' = [pc EXCEPT ![h] = "reveal_wait"]
    /\ Log(h, <<"verify">>)
    /\ Did(h, "reveal")
    /\ UNCHANGED <<aux, entry, widths, active_work, seeds, records, keys, tagged, local, shuffled,
                   messages, revealed, compared, vres, result, attack>>

reveal_keysNoOne(opened) == opened

reveal_keysOneFirst(opened) == <<Gf32Bit_ONE>> \o opened

\* reveal_keys: the opened keys followed by Gf32Bit::ONE
reveal_keys(opened) == opened \o <<Gf32Bit_ONE>>

\* the orders in which n reveals running side by side may complete: every
\* rotation of 1..n and the reverse order
CompletionOrders(n) ==
    {[k \in 1..n |-> ((k + r - 1) % n) + 1] : r \in 0..(n - 1)}
        \cup {[k \in 1..n |-> n + 1 - k]}

parallel_joinInCompletionOrder(order, vals) ==
    [k \in 1..Len(vals) |-> vals[order[k]]]

\* parallel_join: the k-th future to complete is future order[k]; its value
\* is stored at the position of that future in the iterator
parallel_join(order, vals) ==
    [i \in 1..Len(vals) |-> vals[order[CHOOSE k \in 1..Len(vals) : order[k] = i]]]

\* malicious_reveal completes: both peers' shares must agree
reveal_keys_recv(h) ==
    /\ pc[h] = "reveal_wait"
    /\ \A i \in 1..Len(keys[h]) :
          /\ Sent("reveal", LeftOf(h), h, i - 1)
          /\ Sent("reveal", RightOf(h), h, i - 1)
    /\ IF \E i \in 1..Len(keys[h]) :
             Received("reveal", LeftOf(h), h, i - 1)
                 # Received("reveal", RightOf(h), h, i - 1)
       THEN /\ vres' = [vres EXCEPT ![h] = Err("MaliciousRevealFailed")]
            /\ pc' = [pc EXCEPT ![h] = "verified"]
            /\ UNCHANGED revealed
       ELSE /\ \E order \in CompletionOrders(Len(keys[h])) :
                   revealed' = [revealed EXCEPT ![h] = reveal_keys(
                       parallel_join(order,
                           [i \in 1..Len(keys[h]) |->
                               Xor(Xor(Left(keys[h][i]), Right(keys[h][i])),
                                   Received("reveal", LeftOf(h), h, i - 1))]))]
            /\ pc' = [pc EXCEPT ![h] = "hash"]
            /\ UNCHANGED vres
    /\ UNCHANGED <<aux, entry, widths, active_work, seeds, records, keys, tagged, local, shuffled,
                   messages, compared, result, net, steps, rounds, attack>>

Hash(h, rows) == compute_and_hash_tags(revealed[h], rows, SBITS, BBITS)

\* share.left() + share.right() of every shuffled share
LeftPlusRight(rows) == [i \in 1..Len(rows) |-> Xor(Left(rows[i]), Right(rows[i]))]

h1_checksH2First(hash_x1, hash_a_xor_b, hash_y1, hash_h3, hash_h2) ==
    IF hash_x1 # hash_y1 THEN Err("Y1 is inconsistent")
    ELSE IF hash_a_xor_b # hash_h2 THEN Err("C from H2 is inconsistent")
    ELSE IF hash_a_xor_b # hash_h3 THEN Err("C from H3 is inconsistent")
    ELSE Ok(<<>>)

h1_checksCFirst(hash_x1, hash_a_xor_b, hash_y1, hash_h3, hash_h2) ==
    IF hash_a_xor_b # hash_h3 THEN Err("C from H3 is inconsistent")
    ELSE IF hash_a_xor_b # hash_h2 THEN Err("C from H2 is inconsistent")
    ELSE IF hash_x1 # hash_y1 THEN Err("Y1 is inconsistent")
    ELSE Ok(<<>>)

h1_checksNoH2(hash_x1, hash_a_xor_b, hash_y1, hash_h3, hash_h2) ==
    IF hash_x1 # hash_y1 THEN Err("Y1 is inconsistent")
    ELSE IF hash_a_xor_b # hash_h3 THEN Err("C from H3 is inconsistent")
    ELSE Ok(<<>>)

h1_checksNamesH3(hash_x1, hash_a_xor_b, hash_y1, hash_h3, hash_h2) ==
    IF hash_x1 # hash_y1 THEN Err("Y1 is inconsistent")
    ELSE IF hash_a_xor_b # hash_h3 \/ hash_a_xor_b # hash_h2
         THEN Err("C from H3 is inconsistent")
    ELSE Ok(<<>>)

\* the outcome of the comparisons of h1_verify, in the order of the code
h1_checks(hash_x1, hash_a_xor_b, hash_y1, hash_h3, hash_h2) ==
    IF hash_x1 # hash_y1 THEN Err("Y1 is inconsistent")
    ELSE IF hash_a_xor_b # hash_h3 THEN Err("C from H3 is inconsistent")
    ELSE IF hash_a_xor_b # hash_h2 THEN Err("C from H2 is inconsistent")
    ELSE Ok(<<>>)

\* h1_verify: hashes x1 and a xor b, receives hash(y1) and hash(c) from H3 and
\* hash(c) from H2, and compares
h1_verify(h) ==
    /\ h = 1 /\ pc[h] = "hash"
    /\ Sent("HashesH3toH1", 3, h, 0)
    /\ Sent("HashesH3toH1", 3, h, 1)
    /\ Sent("HashH2toH1", 2, h, 0)
    /\ LET hash_x1 == Hash(h, messages[h].x1)
           hash_a_xor_b == Hash(h, LeftPlusRight(shuffled[h]))
           hash_y1 == Received("HashesH3toH1", 3, h, 0)
           hash_h3 == Received("HashesH3toH1", 3, h, 1)
           hash_h2 == Received("HashH2toH1", 2, h, 0)
       IN  /\ compared' = [compared EXCEPT ![h] =
                  << <<"Y1", hash_x1, hash_y1>>,
                     <<"C from H3", hash_a_xor_b, hash_h3>>,
                     <<"C from H2", hash_a_xor_b, hash_h2>> >>]
           /\ vres' = [vres EXCEPT ![h] =
                  h1_checks(hash_x1, hash_a_xor_b, hash_y1, hash_h3, hash_h2)]
    /\ pc' = [pc EXCEPT ![h] = "verified"]
    /\ Did(h, "hash")
    /\ UNCHANGED <<aux, entry, widths, active_work, seeds, records, keys, tagged, local, shuffled,
                   messages, revealed, result, net, steps, attack>>

\* h2_verify: hashes x2 and c and sends hash(c) to H1
h2_verify_send(h) ==
    /\ h = 2 /\ pc[h] = "hash"
    /\ net' = net \cup {Msg("HashH2toH1", h, 1, 0, Hash(h, Rights(shuffled[h])))}
    /\ pc' = [pc EXCEPT ![h] = "hash_wait"]
    /\ Did(h, "hash")
    /\ UNCHANGED <<aux, entry, widths, active_work, seeds, records, keys, tagged, local, shuffled,
                   messages, revealed, compared, vres, result, steps, attack>>

h2_checksSelf(hash_x2, hash_h3) ==
    IF hash_x2 # hash_x2 THEN Err("X2 is inconsistent") ELSE Ok(<<>>)

\* the comparison of h2_verify
h2_checks(hash_x2, hash_h3) ==
    IF hash_x2 # hash_h3 THEN Err("X2 is inconsistent") ELSE Ok(<<>>)

\* h2_verify: receives hash(y2) from H3 and compares it with hash(x2)
h2_verify_recv(h) ==
    /\ h = 2 /\ pc[h] = "hash_wait"
    /\ Sent("HashH3toH2", 3, h, 0)
    /\ LET hash_x2 == Hash(h, messages[h].x2)
           hash_h3 == Received("HashH3toH2", 3, h, 0)
       IN  /\ compared' = [compared EXCEPT ![h] = << <<"X2", hash_x2, hash_h3>> >>]
           /\ vres' = [vres EXCEPT ![h] = h2_checks(hash_x2, hash_h3)]
    /\ pc' = [pc EXCEPT ![h] = "verified"]
    /\ UNCHANGED <<aux, entry, widths, active_work, seeds, records, keys, tagged, local, shuffled,
                   messages, revealed, result, net, steps, rounds, attack>>

h3_verifyCompares(h) ==
    /\ h = 3 /\ pc[h] = "hash"
    /\ net' = net \cup
          {Msg("HashesH3toH1", h, 1, 0, Hash(h, messages[h].y1)),
           Msg("HashesH3toH1", h, 1, 1, Hash(h, Lefts(shuffled[h]))),
           Msg("HashH3toH2", h, 2, 0, Hash(h, messages[h].y2))}
    /\ vres' = [vres EXCEPT ![h] =
           IF /\ Sent("transfer_x_y", 2, h, 0)
              /\ Hash(h, messages[h].y1) # Hash(h, Received("transfer_x_y", 2, h, 0))
           THEN Err("Y1 is inconsistent") ELSE Ok(<<>>)]
    /\ pc' = [pc EXCEPT ![h] = "verified"]
    /\ Did(h, "hash")
    /\ UNCHANGED <<aux, entry, widths, active_work, seeds, records, keys, tagged, local, shuffled,
                   messages, revealed, compared, result, steps, attack>>

h3_verifySwapsRecords(h) ==
    /\ h = 3 /\ pc[h] = "hash"
    /\ net' = net \cup
          {Msg("HashesH3toH1", h, 1, 1, Hash(h, messages[h].y1)),
           Msg("HashesH3toH1", h, 1, 0, Hash(h, Lefts(shuffled[h]))),
           Msg("HashH3toH2", h, 2, 0, Hash(h, messages[h].y2))}
    /\ vres' = [vres EXCEPT ![h] = Ok(<<>>)]
    /\ pc' = [pc EXCEPT ![h] = "verified"]
    /\ Did(h, "hash")
    /\ UNCHANGED <<aux, entry, widths, active_work, seeds, records, keys, tagged, local, shuffled,
                   messages, revealed, compared, result, steps, attack>>

\* h3_verify: hashes y1, y2 and c, sends hash(y1) and hash(c) to H1 and
\* hash(y2) to H2, and compares nothing
h3_verify(h) ==
    /\ h = 3 /\ pc[h] = "hash"
    /\ net' = net \cup
          {Msg("HashesH3toH1", h, 1, 0, Hash(h, messages[h].y1)),
           Msg("HashesH3toH1", h, 1, 1, Hash(h, Lefts(shuffled[h]))),
           Msg("HashH3toH2", h, 2, 0, Hash(h, messages[h].y2))}
    /\ vres' = [vres EXCEPT ![h] = Ok(<<>>)]
    /\ pc' = [pc EXCEPT ![h] = "verified"]
    /\ Did(h, "hash")
    /\ UNCHANGED <<aux, entry, widths, active_work, seeds, records, keys, tagged, local, shuffled,
                   messages, revealed, compared, result, steps, attack>>

\* ------------------------------------------------------------------- return
malicious_shuffle_returnUnverified(h) ==
    /\ pc[h] = "verified"
    /\ result' = [result EXCEPT ![h] = Ok(truncate_tags(shuffled[h], SBITS, BBITS))]
    /\ Log(h, <<"truncate">>)
    /\ pc' = [pc EXCEPT ![h] = "done"]
    /\ UNCHANGED <<aux, entry, widths, active_work, seeds, records, keys, tagged, local, shuffled,
                   messages, revealed, compared, vres, net, rounds, attack>>

\* verify_shuffle(..).await? followed by Ok(truncate_tags(&shuffled_shares)):
\* an error of the verification is returned as it is, otherwise the rows
\* without their tags
malicious_shuffle_return(h) ==
    /\ pc[h] = "verified"
    /\ IF vres[h].status = "Ok"
       THEN /\ result' = [result EXCEPT ![h] =
                   Ok(truncate_tags(shuffled[h], SBITS, BBITS))]
            /\ Log(h, <<"verify_done", "truncate">>)
       ELSE /\ result' = [result EXCEPT ![h] = vres[h]]
            /\ UNCHANGED steps
    /\ pc' = [pc EXCEPT ![h] = "done"]
    /\ UNCHANGED <<aux, entry, widths, active_work, seeds, records, keys, tagged, local, shuffled,
                   messages, revealed, compared, vres, net, rounds, attack>>

Next ==
    \E h \in Helpers :
        \/ AssertWidths(h)
        \/ GenerateKeys(h)
        \/ setup_keys(h)
        \/ compute_and_add_tags_send(h)
        \/ compute_and_add_tags_recv(h)
        \/ run_h1(h)
        \/ run_h2_send_y1(h)
        \/ run_h2_recv_x2(h)
        \/ run_h2_recv_c(h)
        \/ run_h3_recv_y1(h)
        \/ run_h3_recv_c(h)
        \/ reveal_keys_send(h)
        \/ reveal_keys_recv(h)
        \/ h1_verify(h)
        \/ h2_verify_send(h)
        \/ h2_verify_recv(h)
        \/ h3_verify(h)
        \/ malicious_shuffle_return(h)

Spec == Init /\ [][Next]_vars

\* the runs of the row types of KeyConfigs
InitKeys == InitOf(KeyConfigs)

SpecKeys == InitKeys /\ [][Next]_vars

\* the runs the record ids of the tagging are checked in: one, two and four
\* keys, both entry points, up to the end of compute_and_add_tags
TagIdConfigs == {<<"single", <<64, 96>> >>, <<"single", <<112, 144>> >>,
                 <<"sharded", <<32, 64>> >>}

InitTagIds == InitOf(TagIdConfigs)

NextTagIds ==
    \E h \in Helpers :
        \/ AssertWidths(h)
        \/ GenerateKeys(h)
        \/ setup_keys(h)
        \/ compute_and_add_tags_send(h)
        \/ compute_and_add_tags_recv(h)

SpecTagIds == InitTagIds /\ [][NextTagIds]_vars

\* compute_and_add_tags called on the three helpers with rows of two 32-bit
\* entries and with one key fewer, as many keys and one key more than that
InitTagCall ==
    /\ entry = "tag"
    /\ widths = <<64, 96>>
    /\ SeedsAndWork
    /\ records \in SeqsUpTo(RowVals(widths[1]), MaxRows)
    /\ pc = [h \in Helpers |-> "tag"]
    /\ \E n \in (amount_of_keys(widths[1]) - 1)..(amount_of_keys(widths[1]) + 1) :
          keys = [h \in Helpers |-> PrssKeys(h, n)]
    /\ tagged = [h \in Helpers |-> <<>>]
    /\ local = [h \in Helpers |-> NoLocal]
    /\ shuffled = [h \in Helpers |-> <<>>]
    /\ messages = [h \in Helpers |-> NoMessages]
    /\ revealed = [h \in Helpers |-> <<>>]
    /\ compared = [h \in Helpers |-> <<>>]
    /\ vres = [h \in Helpers |-> NoResult]
    /\ result = [h \in Helpers |-> NoResult]
    /\ net = {}
    /\ steps = [h \in Helpers |-> <<>>]
    /\ rounds = [h \in Helpers |-> {}]
    /\ attack = NoAttacker
    /\ NoCall
    /\ NoFailure
    /\ NoVerify
    /\ NoJoin
    /\ NoShards
    /\ NoSharded

\* the tagging in the runs of the entry points with one and with two keys,
\* and called by itself
TagCallConfigs == {<<"single", <<64, 96>> >>, <<"sharded", <<32, 64>> >>}

SpecTagCall == (InitOf(TagCallConfigs) \/ InitTagCall) /\ [][NextTagIds]_vars


\* ============================================== failures of the primitives
\* the points of malicious_shuffle where helper h awaits a primitive that
\* can fail: a multiplication or a shuffle transfer
AwaitsTagOrShuffle(h) ==
    /\ pc[h] \in {"tag", "tag_wait", "shuffle", "shuffle_x2", "shuffle_c"}
    /\ Len(records) > 0

\* the points of verify_shuffle where helper h awaits a reveal, a send or a
\* receive of a hash
AwaitsVerify(h) == pc[h] \in {"verify", "reveal_wait", "hash", "hash_wait"}

\* the errors the primitive helper h awaits at its pc can fail with: the
\* send it is about to make, the receive it waits in, or the send that
\* follows a receive once the record it waits for has arrived.  H1 only
\* receives in h1_verify; H3 begins the shuffle with a receive
InfraErrors(h) ==
    LET at == pc[h]
        send == {Err("SendError")}
        recv == {Err("ReceiveError")}
    IN  CASE at \in {"tag", "verify"} -> send
          [] at = "shuffle" /\ h # 3 -> send
          [] at = "shuffle" /\ h = 3 ->
                 recv \cup (IF Sent("transfer_x_y", 2, h, 0) THEN send ELSE {})
          [] at = "shuffle_x2" ->
                 recv \cup (IF Sent("transfer_x_y", 1, h, 0) THEN send ELSE {})
          [] at = "hash" /\ h = 1 -> recv
          [] at = "hash" /\ h # 1 -> send
          [] OTHER -> recv

\* compute_and_add_tags or the shuffle returns Err: a multiplication or a
\* transfer failed
PrimitiveFails(h) ==
    /\ AwaitsTagOrShuffle(h)
    /\ failure[h] = NoResult
    /\ \E e \in InfraErrors(h) : failure' = [failure EXCEPT ![h] = e]
    /\ pc' = [pc EXCEPT ![h] = "failed"]
    /\ UNCHANGED <<shuffle_vars_but_pc, call, arg, ret, shard_vars, join_vars, verify_vars, sharded_vars>>

\* the records of the reveal of helper h: for every key share the left part
\* to the right helper and the right part to the left helper
RevealSends(h) ==
    {Msg("reveal", h, RightOf(h), i - 1, Left(keys[h][i])) : i \in 1..Len(keys[h])}
        \cup
    {Msg("reveal", h, LeftOf(h), i - 1, Right(keys[h][i])) : i \in 1..Len(keys[h])}

\* the three sends of h3_verify, in the order try_join3 polls them
H3HashSends(h) ==
    <<Msg("HashesH3toH1", h, 1, 0, Hash(h, messages[h].y1)),
      Msg("HashesH3toH1", h, 1, 1, Hash(h, Lefts(shuffled[h]))),
      Msg("HashH3toH2", h, 2, 0, Hash(h, messages[h].y2))>>

\* the records that went out before the send that failed: of the reveals,
\* which run side by side, any but all; of the hashes of H3 the ones polled
\* before the failing one; nothing where the failing send is the only one
SentBeforeFailure(h) ==
    CASE pc[h] = "verify" -> SUBSET RevealSends(h) \ {RevealSends(h)}
      [] pc[h] = "hash" /\ h = 3 ->
             {{H3HashSends(h)[k] : k \in 1..n} : n \in 0..2}
      [] OTHER -> {{}}

\* verify_shuffle returns Err: the reveal, or a send or receive of a hash
\* failed (try_join3(..).await?, send(..).await?)
VerifyFails(h) ==
    /\ AwaitsVerify(h)
    /\ failure[h] = NoResult
    /\ \E e \in InfraErrors(h) :
          /\ failure' = [failure EXCEPT ![h] = e]
          /\ vres' = [vres EXCEPT ![h] = e]
    /\ \E sent \in SentBeforeFailure(h) :
          /\ net' = net \cup sent
          /\ rounds' = [rounds EXCEPT ![h] =
                IF sent = {} THEN @
                ELSE @ \cup {IF pc[h] = "verify" THEN "reveal" ELSE "hash"}]
    /\ pc' = [pc EXCEPT ![h] = "verified"]
    /\ UNCHANGED <<entry, widths, active_work, seeds, records, keys, tagged, local, shuffled,
                   messages, revealed, compared, result, steps, attack,
                   call, arg, ret, shard_vars, join_vars, verify_vars, sharded_vars>>

PropagateSwallows(h) ==
    /\ pc[h] = "failed"
    /\ pc' = [pc EXCEPT ![h] = "verify"]
    /\ UNCHANGED <<shuffle_vars_but_pc, aux>>

\* the ? after compute_and_add_tags(..).await and shuffle_protocol(..).await:
\* the error is returned to the caller
Propagate(h) ==
    /\ pc[h] = "failed"
    /\ result' = [result EXCEPT ![h] = failure[h]]
    /\ pc' = [pc EXCEPT ![h] = "done"]
    /\ UNCHANGED <<entry, widths, active_work, seeds, records, keys, tagged, local, shuffled,
                   messages, revealed, compared, vres, net, steps, rounds, attack, aux>>

\* runs with failing primitives: one matching row type, both entry points,
\* no row or one row, all PRSS seeds zero
InitFault ==
    /\ Init
    /\ widths = <<TagBits, 2 * TagBits>>
    /\ Len(records) <= 1
    /\ seeds = [h \in Helpers |-> 0]

NextFault ==
    \/ Next
    \/ \E h \in Helpers :
          \/ PrimitiveFails(h)
          \/ VerifyFails(h)
          \/ Propagate(h)

SpecFault == InitFault /\ [][NextFault]_vars


\* ===================================================== setup_keys on shards
\* ShardIndex::FIRST
ShardIndex_FIRST == 0

Shards == 0..(num_shards - 1)

\* the item the stream of the channel from the first shard yields next to
\* shard s, which has taken k items: the record with id k once it was sent;
\* when the channel closed before it was, an error item or the end of the
\* stream, whichever way the channel layer reports the close; nothing yet
\* otherwise
ChannelHas(s, k) == \E m \in chan[s] : m.rid = k
ChannelItem(s, k) ==
    IF ChannelHas(s, k)
    THEN [kind |-> "Ok", val |-> (CHOOSE m \in chan[s] : m.rid = k).val]
    ELSE CASE closed[s] = "error" -> [kind |-> "Err", val |-> <<>>]
           [] closed[s] = "end" -> [kind |-> "End", val |-> <<>>]
           [] OTHER -> [kind |-> "Pending", val |-> <<>>]

\* TotalRecords::specified(amount_of_keys) of key_dist_ctx, the context both
\* the sending and the receiving branch use
key_dist_total_records(n) == n

setup_keys_first_receiverNoSkip == ShardIndex_FIRST

setup_keys_first_receiverSkipsTwo == ShardIndex_FIRST + 2

\* ctx.shard_count().iter().skip(1): the first shard the keys are sent to
setup_keys_first_receiver == ShardIndex_FIRST + 1

\* row types the keys are set up for
KeyWidths == {32, 64, 112}

InitShards ==
    /\ ShuffleIdle
    /\ NoCall
    /\ NoFailure
    /\ NoVerify
    /\ NoJoin
    /\ NoSharded
    /\ num_shards \in 1..MaxShards
    /\ n_keys \in {amount_of_keys(w) : w \in KeyWidths}
    /\ sknext = setup_keys_first_receiver
    /\ skpc = [s \in Shards |-> "start"]
    /\ skeys = [s \in Shards |-> <<>>]
    /\ chan = [s \in Shards |-> {}]
    /\ closed = [s \in Shards |-> "open"]
    /\ skres = [s \in Shards |-> NoResult]

\* the first shard generates the keys from the PRSS
setup_keys_generate(s) ==
    /\ s \in Shards /\ s = ShardIndex_FIRST /\ skpc[s] = "start"
    /\ skeys' = [skeys EXCEPT ![s] = PrssKeys(1, n_keys)]
    /\ skpc' = [skpc EXCEPT ![s] = "sending"]
    /\ UNCHANGED <<non_shard_vars, num_shards, n_keys, sknext, chan, closed, skres>>

setup_keys_sendReversed(s) ==
    /\ s \in Shards /\ s = ShardIndex_FIRST /\ skpc[s] = "sending"
    /\ sknext < num_shards
    /\ closed[sknext] = "open"
    /\ \E i \in 1..Len(skeys[s]) :
          /\ ~ChannelHas(sknext, i - 1)
          /\ chan' = [chan EXCEPT ![sknext] =
                 @ \cup {[rid |-> i - 1, val |-> skeys[s][Len(skeys[s]) + 1 - i]]}]
          /\ sknext' = IF Cardinality(chan[sknext]) + 1 = Len(skeys[s])
                       THEN sknext + 1 ELSE sknext
    /\ UNCHANGED <<non_shard_vars, num_shards, n_keys, skeys, closed, skpc, skres>>

\* the first shard sends one of the keys to the shard whose turn it is, with
\* the index of the key as record id; on a closed channel the send fails and
\* setup_keys returns the error
setup_keys_send(s) ==
    /\ s \in Shards /\ s = ShardIndex_FIRST /\ skpc[s] = "sending"
    /\ sknext < num_shards
    /\ IF closed[sknext] # "open"
       THEN /\ skpc' = [skpc EXCEPT ![s] = "done"]
            /\ skres' = [skres EXCEPT ![s] = Err("SendError")]
            /\ UNCHANGED <<chan, sknext>>
       ELSE /\ \E i \in 1..Len(skeys[s]) :
                 /\ ~ChannelHas(sknext, i - 1)
                 /\ chan' = [chan EXCEPT ![sknext] =
                        @ \cup {[rid |-> i - 1, val |-> skeys[s][i]]}]
                 /\ sknext' = IF Cardinality(chan[sknext]) + 1 = Len(skeys[s])
                              THEN sknext + 1 ELSE sknext
            /\ UNCHANGED <<skpc, skres>>
    /\ UNCHANGED <<non_shard_vars, num_shards, n_keys, skeys, closed>>

\* the first shard has sent the keys to every other shard: Ok(keys)
setup_keys_return(s) ==
    /\ s \in Shards /\ s = ShardIndex_FIRST /\ skpc[s] = "sending"
    /\ sknext = num_shards
    /\ skpc' = [skpc EXCEPT ![s] = "done"]
    /\ skres' = [skres EXCEPT ![s] = Ok(skeys[s])]
    /\ UNCHANGED <<non_shard_vars, num_shards, n_keys, sknext, skeys, chan, closed>>

setup_keys_recvNoTake(s) ==
    /\ s \in Shards /\ s # ShardIndex_FIRST /\ skpc[s] = "start"
    /\ LET item == ChannelItem(s, Len(skeys[s]))
       IN  /\ item.kind = "Ok"
           /\ skeys' = [skeys EXCEPT ![s] = Append(@, item.val)]
           /\ skpc' = [skpc EXCEPT ![s] = "done"]
           /\ skres' = [skres EXCEPT ![s] = Ok(Append(skeys[s], item.val))]
    /\ UNCHANGED <<non_shard_vars, num_shards, n_keys, sknext, chan, closed>>

\* another shard: shard_recv_channel(FIRST).take(amount_of_keys)
\* .try_collect(): the next item of the stream is collected, an error item
\* ends the collection with that error, the end of the stream ends it with
\* the keys collected so far, and after amount_of_keys items the collected
\* keys are returned; the number of keys collected is not checked
setup_keys_recv(s) ==
    /\ s \in Shards /\ s # ShardIndex_FIRST /\ skpc[s] = "start"
    /\ LET item == ChannelItem(s, Len(skeys[s]))
       IN  /\ item.kind # "Pending"
           /\ IF item.kind = "Err"
              THEN /\ skpc' = [skpc EXCEPT ![s] = "done"]
                   /\ skres' = [skres EXCEPT ![s] = Err("ReceiveError")]
                   /\ UNCHANGED skeys
              ELSE IF item.kind = "End"
              THEN /\ skpc' = [skpc EXCEPT ![s] = "done"]
                   /\ skres' = [skres EXCEPT ![s] = Ok(skeys[s])]
                   /\ UNCHANGED skeys
              ELSE /\ skeys' = [skeys EXCEPT ![s] = Append(@, item.val)]
                   /\ IF Len(skeys[s]) + 1 = n_keys
                      THEN /\ skpc' = [skpc EXCEPT ![s] = "done"]
                           /\ skres' = [skres EXCEPT ![s] = Ok(Append(skeys[s], item.val))]
                      ELSE UNCHANGED <<skpc, skres>>
    /\ UNCHANGED <<non_shard_vars, num_shards, n_keys, sknext, chan, closed>>

\* the channel from the first shard to shard s closes before all keys were
\* sent on it, and its stream reports that as an error
channel_closes(s) ==
    /\ s \in Shards /\ s # ShardIndex_FIRST
    /\ closed[s] = "open"
    /\ Cardinality(chan[s]) < n_keys
    /\ closed' = [closed EXCEPT ![s] = "error"]
    /\ UNCHANGED <<non_shard_vars, num_shards, n_keys, skpc, sknext, skeys, chan, skres>>

\* the channel from the first shard to shard s closes before all keys were
\* sent on it, and its stream just ends
channel_ends(s) ==
    /\ s \in Shards /\ s # ShardIndex_FIRST
    /\ closed[s] = "open"
    /\ Cardinality(chan[s]) < n_keys
    /\ closed' = [closed EXCEPT ![s] = "end"]
    /\ UNCHANGED <<non_shard_vars, num_shards, n_keys, skpc, sknext, skeys, chan, skres>>

NextShards ==
    \E s \in 0..(MaxShards - 1) :
        \/ setup_keys_generate(s)
        \/ setup_keys_send(s)
        \/ setup_keys_return(s)
        \/ setup_keys_recv(s)
        \/ channel_closes(s)

\* setup_keys on channels that report an early close as an error
SpecShards == InitShards /\ [][NextShards]_vars

NextShardsClose ==
    \/ NextShards
    \/ \E s \in 0..(MaxShards - 1) : channel_ends(s)

\* setup_keys on channels that report an early close either way
SpecShardsClose == InitShards /\ [][NextShardsClose]_vars

\* setup_keys on channels that deliver every record: a step of shard s
ShardStep(s) ==
    \/ setup_keys_generate(s)
    \/ setup_keys_send(s)
    \/ setup_keys_return(s)
    \/ setup_keys_recv(s)

NextShardsLive == \E s \in 0..(MaxShards - 1) : ShardStep(s)

\* every shard runs setup_keys as a task of its own
SpecShardsLive ==
    /\ InitShards
    /\ [][NextShardsLive]_vars
    /\ \A s \in 0..(MaxShards - 1) : WF_vars(ShardStep(s))


\* ============================================ sharded shuffle on two shards
ShardIds == {0, 1}

\* the input rows of shard s: their number and the index before the first
ShardLen(s) == IF s = 0 THEN in_split ELSE Len(records) - in_split
ShardOffset(s) == IF s = 0 THEN 0 ELSE in_split

\* the shares of the input rows of shard s held by helper h
ShardInput(h, s) == [i \in 1..ShardLen(s) |-> InputShare(h, ShardOffset(s) + i)]

\* the part of the shuffled table that ends on shard s
OutSlice(rows, s) ==
    CASE rows = <<>> -> <<>>
      [] s = 0 -> SubSeq(rows, 1, out_split)
      [] OTHER -> SubSeq(rows, out_split + 1, Len(rows))

PerShard(v) == [h \in Helpers |-> [s \in ShardIds |-> v]]

\* the row types of the sharded runs: one that matches, one too small; the
\* runs deal no row, one row or two rows to the two shards in every way
ShardedWidths == {<<32, 64>>, <<20, 32>>}

InitSharded ==
    /\ entry = "sharded"
    /\ widths \in ShardedWidths
    /\ SeedsAndWork
    /\ records \in SeqsUpTo(RowVals(widths[1]), 2)
    /\ HelpersIdle
    /\ NoCall
    /\ NoFailure
    /\ NoVerify
    /\ NoJoin
    /\ NoShards
    /\ in_split \in 0..Len(records)
    /\ out_split \in 0..Len(records)
    /\ shpc = PerShard("start")
    /\ shkeys = PerShard(<<>>)
    /\ shtagged = PerShard(<<>>)
    /\ shshuffled = PerShard(<<>>)
    /\ shmessages = PerShard(NoMessages)
    /\ shvres = PerShard(NoResult)
    /\ shresult = PerShard(NoResult)

\* every helper runs one task per shard; a step takes the task of shard s
\* of helper h from one wait to the next
ShardedUnchanged ==
    UNCHANGED <<shuffle_vars, call, arg, ret, failure, shard_vars, join_vars,
                verify_vars, in_split, out_split>>

sharded_setup_keysOwnPrss(h, s) ==
    [i \in 1..amount_of_keys(SBITS) |->
        <<PrssGen(SeedLeft(h), "keys", i - 1 + s),
          PrssGen(SeedRight(h), "keys", i - 1 + s)>>]

\* setup_keys on shard s of helper h: the first shard generates the keys,
\* the other one receives the keys the first shard generated
sharded_setup_keys(h, s) ==
    IF s = ShardIndex_FIRST
    THEN PrssKeys(h, amount_of_keys(SBITS))
    ELSE shkeys[h][ShardIndex_FIRST]

\* malicious_sharded_shuffle up to its first wait after the keys arrived:
\* assert_eq!(S::BITS + 32, B::BITS), setup_keys (a shard other than the
\* first waits for the keys of the first shard), and compute_and_add_tags up
\* to the sends of the first active_work rows; on no rows it returns at once
sharded_begin(h, s) ==
    /\ shpc[h][s] = "start"
    /\ IF SBITS + TagBits # BBITS
       THEN /\ shpc' = [shpc EXCEPT ![h][s] = "panicked"]
            /\ shresult' = [shresult EXCEPT ![h][s] = Panic]
            /\ UNCHANGED shkeys
       ELSE /\ s # ShardIndex_FIRST => shpc[h][ShardIndex_FIRST] # "start"
            /\ shkeys' = [shkeys EXCEPT ![h][s] = sharded_setup_keys(h, s)]
            /\ shpc' = [shpc EXCEPT ![h][s] =
                   IF ShardLen(s) = 0 THEN "shuffle" ELSE "tag_wait"]
            /\ UNCHANGED shresult
    /\ ShardedUnchanged
    /\ UNCHANGED <<shtagged, shshuffled, shmessages, shvres>>

\* the rows of shard s whose multiplications helper h has sent
ShardRowsBegun(h, s) ==
    LET w == Len(shtagged[h][s]) + active_work
    IN  CASE shpc[h][s] \in {"start", "panicked"} -> {}
          [] shpc[h][s] = "tag_wait" ->
                 1..(IF w < ShardLen(s) THEN w ELSE ShardLen(s))
          [] OTHER -> 1..ShardLen(s)

\* the share of the product of column j of row i that helper h ends with
\* once the value of its left helper has arrived
ShardProduct(h, s, i, j) ==
    LET row_length == Len(shkeys[h][s])
        rid == MulRecordId(i - 1, j - 1, row_length)
        l == LeftOf(h)
    IN  MulShare(h, rid, ShareEntries(ShardInput(h, s)[i], SBITS)[j], shkeys[h][s][j],
                 MulSend(l, rid, ShareEntries(ShardInput(l, s)[i], SBITS)[j],
                         shkeys[l][s][j]))

\* compute_and_add_tags on shard s of helper h from one wait to the next:
\* the values of the left helper for the oldest row not yet yielded have
\* arrived, the row is tagged and yielded and the row that takes its place
\* begun; after the last row the helper calls the shuffle
sharded_tag(h, s) ==
    /\ shpc[h][s] = "tag_wait"
    /\ LET i == Len(shtagged[h][s]) + 1
       IN  /\ i \in ShardRowsBegun(LeftOf(h), s)
           /\ shtagged' = [shtagged EXCEPT ![h][s] =
                  Append(@, concatenate_row_and_tag(
                      ShardInput(h, s)[i],
                      row_tag([j \in 1..Len(shkeys[h][s]) |-> ShardProduct(h, s, i, j)]),
                      SBITS, BBITS))]
           /\ shpc' = [shpc EXCEPT ![h][s] =
                  IF i = ShardLen(s) THEN "shuffle" ELSE "tag_wait"]
    /\ ShardedUnchanged
    /\ UNCHANGED <<shkeys, shshuffled, shmessages, shvres, shresult>>

\* the tagged rows of both shards of helper h, shard 0 first
AllShards(f, h) == f[h][0] \o f[h][1]

\* hN_shuffle_for_shard on all shards, once every shard of every helper has
\* called it: the rows of all shards are masked and permuted as in the
\* single-shard shuffle and end on the shards out_split assigns them to,
\* with the intermediate messages of the same positions
sharded_shuffle ==
    /\ \A h \in Helpers : \A s \in ShardIds : shpc[h][s] = "shuffle"
    /\ LET n == Len(AllShards(shtagged, 1))
           t1 == AllShards(shtagged, 1)
           t2 == AllShards(shtagged, 2)
           x1 == Permute(AddRows(AddRows(Lefts(t1), Rights(t1)), Z12(n)), seeds[1], "perm")
           x2 == Permute(AddRows(x1, Z31(n)), seeds[3], "perm")
           x3 == Permute(AddRows(x2, Z23(n)), seeds[2], "perm")
           y1 == Permute(AddRows(Rights(t2), Z12(n)), seeds[1], "perm")
           y2 == Permute(AddRows(y1, Z31(n)), seeds[3], "perm")
           y3 == Permute(AddRows(y2, Z23(n)), seeds[2], "perm")
           c == AddRows(AddRows(x3, BHat(n)), AddRows(y3, AHat(n)))
           out(h) == CASE h = 1 -> Combine(AHat(n), BHat(n))
                       [] h = 2 -> Combine(BHat(n), c)
                       [] h = 3 -> Combine(c, AHat(n))
           msg(h) == CASE h = 1 -> [NoMessages EXCEPT !.x1 = x1]
                       [] h = 2 -> [NoMessages EXCEPT !.x2 = x2]
                       [] h = 3 -> [NoMessages EXCEPT !.y1 = y1, !.y2 = y2]
       IN  IF n = 0
           THEN UNCHANGED <<shshuffled, shmessages>>
           ELSE /\ shshuffled' = [h \in Helpers |->
                                     [s \in ShardIds |-> OutSlice(out(h), s)]]
                /\ shmessages' = [h \in Helpers |-> [s \in ShardIds |->
                       [f \in DOMAIN NoMessages |-> OutSlice(msg(h)[f], s)]]]
    /\ shpc' = PerShard("verify")
    /\ ShardedUnchanged
    /\ UNCHANGED <<shkeys, shtagged, shvres, shresult>>

\* verify_shuffle begins on shard s of helper h: the shares of the keys are
\* sent to both peers
sharded_reveal_send(h, s) ==
    /\ shpc[h][s] = "verify"
    /\ shpc' = [shpc EXCEPT ![h][s] = "reveal_wait"]
    /\ ShardedUnchanged
    /\ UNCHANGED <<shkeys, shtagged, shshuffled, shmessages, shvres, shresult>>

\* helper h has sent the shares of its keys on shard s
ShardRevealSent(h, s) == shpc[h][s] \in {"reveal_wait", "hash", "hash_wait", "done"}

\* H2 has sent its hash to H1, H3 its hashes to H1 and H2, on shard s
ShardHashSent(h, s) ==
    IF h = 2 THEN shpc[h][s] \in {"hash_wait", "done"} ELSE shpc[h][s] = "done"

\* reveal_keys on shard s: the keys the three helpers' shares open to,
\* followed by ONE
ShardRevealed(s) ==
    reveal_keys([i \in 1..Len(shkeys[1][s]) |->
        Xor(Xor(Left(shkeys[1][s][i]), Left(shkeys[2][s][i])), Left(shkeys[3][s][i]))])

ShardHash(s, rows) == compute_and_hash_tags(ShardRevealed(s), rows, SBITS, BBITS)

\* verify_shuffle(..).await? and Ok(truncate_tags(&shuffled_shares)) on
\* shard s of helper h, which verify_shuffle returned res to
sharded_return(h, s, res) ==
    /\ shvres' = [shvres EXCEPT ![h][s] = res]
    /\ shresult' = [shresult EXCEPT ![h][s] =
           IF res.status = "Ok"
             THEN Ok(truncate_tags(shshuffled[h][s], SBITS, BBITS))
             ELSE res]
    /\ shpc' = [shpc EXCEPT ![h][s] = "done"]

\* the shares of both peers have arrived and the keys are revealed: H1 goes
\* on to wait for the hashes, H2 sends its hash and waits for the one of H3,
\* H3 sends its hashes and returns
sharded_reveal_recv(h, s) ==
    /\ shpc[h][s] = "reveal_wait"
    /\ ShardRevealSent(LeftOf(h), s) /\ ShardRevealSent(RightOf(h), s)
    /\ CASE h = 1 -> /\ shpc' = [shpc EXCEPT ![h][s] = "hash"]
                     /\ UNCHANGED <<shvres, shresult>>
         [] h = 2 -> /\ shpc' = [shpc EXCEPT ![h][s] = "hash_wait"]
                     /\ UNCHANGED <<shvres, shresult>>
         [] h = 3 -> sharded_return(h, s, Ok(<<>>))
    /\ ShardedUnchanged
    /\ UNCHANGED <<shkeys, shtagged, shshuffled, shmessages>>

\* h1_verify and h2_verify on shard s once the hashes they wait for have
\* arrived: they compare and return
sharded_verify(h, s) ==
    /\ \/ h = 1 /\ shpc[h][s] = "hash"
             /\ ShardHashSent(3, s) /\ ShardHashSent(2, s)
       \/ h = 2 /\ shpc[h][s] = "hash_wait" /\ ShardHashSent(3, s)
    /\ LET hash_y1 == ShardHash(s, shmessages[3][s].y1)
           hash_y2 == ShardHash(s, shmessages[3][s].y2)
           hash_c_h3 == ShardHash(s, Lefts(shshuffled[3][s]))
           hash_c_h2 == ShardHash(s, Rights(shshuffled[2][s]))
       IN  sharded_return(h, s,
               IF h = 1
               THEN h1_checks(ShardHash(s, shmessages[1][s].x1),
                              ShardHash(s, LeftPlusRight(shshuffled[1][s])),
                              hash_y1, hash_c_h3, hash_c_h2)
               ELSE h2_checks(ShardHash(s, shmessages[2][s].x2), hash_y2))
    /\ ShardedUnchanged
    /\ UNCHANGED <<shkeys, shtagged, shshuffled, shmessages>>

NextSharded ==
    \/ \E h \in Helpers : \E s \in ShardIds :
          \/ sharded_begin(h, s)
          \/ sharded_tag(h, s)
          \/ sharded_reveal_send(h, s)
          \/ sharded_reveal_recv(h, s)
          \/ sharded_verify(h, s)
    \/ sharded_shuffle

SpecSharded == InitSharded /\ [][NextSharded]_vars


\* ================================ verify_shuffle with delivery of messages
\* the hash values a table can have
HashVals == {0, 1}

\* the hashes of the roles: H1's and H2's own tables hash as in an honest
\* run, the tables of the peers hash to any value
HashChoices ==
    {[x1 |-> 0, a_xor_b |-> 1, x2 |-> 0, y1 |-> y1, c_h3 |-> c3, c_h2 |-> c2, y2 |-> y2] :
        y1 \in HashVals, c3 \in HashVals, c2 \in HashVals, y2 \in HashVals}

\* the key shares of the roles, one key, with the left share that role t
\* holds of it differing from the share its left peer holds of the same part
TamperedKeys(t) ==
    [h \in Helpers |->
        IF h = t
        THEN [PrssKeys(h, 1) EXCEPT ![1] = <<Xor(Left(@), {0}), Right(@)>>]
        ELSE PrssKeys(h, 1)]

\* all three roles have entered verify_shuffle, holding the key shares ks
VerifyEntered(ks) ==
    /\ entry = "verify"
    /\ active_work = 1
    /\ widths = <<TagBits, 2 * TagBits>>
    /\ seeds = [h \in Helpers |-> 0]
    /\ records = <<>>
    /\ pc = [h \in Helpers |-> "verify"]
    /\ keys = ks
    /\ tagged = [h \in Helpers |-> <<>>]
    /\ local = [h \in Helpers |-> NoLocal]
    /\ shuffled = [h \in Helpers |-> <<>>]
    /\ messages = [h \in Helpers |-> NoMessages]
    /\ revealed = [h \in Helpers |-> <<>>]
    /\ compared = [h \in Helpers |-> <<>>]
    /\ vres = [h \in Helpers |-> NoResult]
    /\ result = [h \in Helpers |-> NoResult]
    /\ net = {}
    /\ steps = [h \in Helpers |-> <<>>]
    /\ rounds = [h \in Helpers |-> {}]
    /\ attack = NoAttack
    /\ NoCall
    /\ failure = [h \in Helpers |-> NoResult]
    /\ NoShards
    /\ NoSharded
    /\ NoJoin
    /\ hashes \in HashChoices
    /\ delivered = {}
    /\ arrival = <<>>
    /\ declared = {}

\* the roles hold consistent shares of one key
InitVerify == VerifyEntered([h \in Helpers |-> PrssKeys(h, 1)])

\* the roles hold consistent key shares, or one role holds a tampered one
InitVerifyTampered ==
    \/ InitVerify
    \/ \E t \in Helpers : VerifyEntered(TamperedKeys(t))

Peers(h) == {LeftOf(h), RightOf(h)}

\* reveal_keys: malicious_reveal of every key share sends the left share to
\* the right role and the right share to the left role
v_reveal_send(h) ==
    /\ pc[h] = "verify"
    /\ net' = net \cup
          {Msg("reveal", h, RightOf(h), i - 1, Left(keys[h][i])) : i \in 1..Len(keys[h])}
          \cup
          {Msg("reveal", h, LeftOf(h), i - 1, Right(keys[h][i])) : i \in 1..Len(keys[h])}
    /\ pc' = [pc EXCEPT ![h] = "reveal_wait"]
    /\ UNCHANGED <<shuffle_vars_but_pc_net, call, arg, ret, failure, shard_vars, join_vars,
                   sharded_vars, verify_vars>>

\* the reveal record with id rid that has reached h from src
RevealArrived(h, src, rid) ==
    \E m \in delivered : m.gate = "reveal" /\ m.src = src /\ m.dst = h /\ m.rid = rid

RevealReceived(h, src, rid) ==
    (CHOOSE m \in delivered :
        m.gate = "reveal" /\ m.src = src /\ m.dst = h /\ m.rid = rid).val

\* reveal_keys(..).await?: when the parts of both peers have arrived, the
\* reveal fails if they differ, and verify_shuffle returns that error
\* before it sets up a channel or sends a hash
v_reveal_recv(h) ==
    /\ pc[h] = "reveal_wait"
    /\ \A i \in 1..Len(keys[h]) : \A q \in Peers(h) : RevealArrived(h, q, i - 1)
    /\ IF \E i \in 1..Len(keys[h]) :
             RevealReceived(h, LeftOf(h), i - 1) # RevealReceived(h, RightOf(h), i - 1)
       THEN /\ vres' = [vres EXCEPT ![h] = Err("MaliciousRevealFailed")]
            /\ pc' = [pc EXCEPT ![h] = "verified"]
       ELSE /\ pc' = [pc EXCEPT ![h] = "channels"]
            /\ UNCHANGED vres
    /\ UNCHANGED <<entry, widths, active_work, seeds, records, keys, tagged, local, shuffled,
                   messages, revealed, compared, result, net, steps, rounds, attack, aux,
                   call, arg, ret, failure, shard_vars, join_vars, sharded_vars,
                   verify_vars>>

ChannelsOfOneFromH3(h) ==
    CASE h = 1 -> {<<"HashesH3toH1", 1, "recv", 1>>, <<"HashH2toH1", 1, "recv", 1>>}
      [] h = 2 -> {<<"HashH2toH1", 2, "send", 1>>, <<"HashH3toH2", 2, "recv", 1>>}
      [] h = 3 -> {<<"HashesH3toH1", 3, "send", 2>>, <<"HashH3toH2", 3, "send", 1>>}

\* the channels a role sets up in hN_verify with the total records it
\* declares on each
ChannelsOf(h) ==
    CASE h = 1 -> {<<"HashesH3toH1", 1, "recv", 2>>, <<"HashH2toH1", 1, "recv", 1>>}
      [] h = 2 -> {<<"HashH2toH1", 2, "send", 1>>, <<"HashH3toH2", 2, "recv", 1>>}
      [] h = 3 -> {<<"HashesH3toH1", 3, "send", 2>>, <<"HashH3toH2", 3, "send", 1>>}

\* "setup channels" of h1_verify, h2_verify and h3_verify
v_channels(h) ==
    /\ pc[h] = "channels"
    /\ declared' = declared \cup ChannelsOf(h)
    /\ pc' = [pc EXCEPT ![h] = "hash"]
    /\ UNCHANGED <<shuffle_vars_but_pc, call, arg, ret, failure, shard_vars, join_vars,
                   sharded_vars, hashes, delivered, arrival>>

\* the records a role sends in hN_verify
SendsOf(h) ==
    CASE h = 1 -> {}
      [] h = 2 -> {Msg("HashH2toH1", 2, 1, 0, hashes.c_h2)}
      [] h = 3 -> {Msg("HashesH3toH1", 3, 1, 0, hashes.y1),
                   Msg("HashesH3toH1", 3, 1, 1, hashes.c_h3),
                   Msg("HashH3toH2", 3, 2, 0, hashes.y2)}

\* the record of step `gate` with record id rid has reached h
Arrived(h, gate, rid) ==
    \E m \in delivered : m.gate = gate /\ m.dst = h /\ m.rid = rid

receiveInArrivalOrder(h, gate, rid) ==
    IF h = 1
    THEN SelectSeq(arrival, LAMBDA m : m.gate = gate)[rid + 1].val
    ELSE (CHOOSE m \in delivered : m.gate = gate /\ m.dst = h /\ m.rid = rid).val

\* channel.receive(record_id): the value of the record with that id
receive(h, gate, rid) ==
    (CHOOSE m \in delivered : m.gate = gate /\ m.dst = h /\ m.rid = rid).val

v_sendAfterCompare(h) ==
    /\ pc[h] = "hash"
    /\ h = 2 => /\ Arrived(2, "HashH3toH2", 0)
                /\ hashes.x2 = receive(2, "HashH3toH2", 0)
    /\ \E m \in SendsOf(h) \ net : net' = net \cup {m}
    /\ UNCHANGED <<shuffle_vars_but_pc_net, pc, call, arg, ret, failure, shard_vars, join_vars,
                   sharded_vars, verify_vars>>

\* one of the sends a role joins on, in any order
v_send(h) ==
    /\ pc[h] = "hash"
    /\ \E m \in SendsOf(h) \ net : net' = net \cup {m}
    /\ UNCHANGED <<shuffle_vars_but_pc_net, pc, call, arg, ret, failure, shard_vars, join_vars,
                   sharded_vars, verify_vars>>

\* the network delivers a record that was sent
Deliver ==
    /\ \E m \in net \ delivered :
          /\ delivered' = delivered \cup {m}
          /\ arrival' = IF m.dst = 1 /\ m.gate # "reveal"
                        THEN Append(arrival, m) ELSE arrival
    /\ UNCHANGED <<shuffle_vars, call, arg, ret, failure, shard_vars, join_vars, sharded_vars,
                   hashes, declared>>

\* h1_verify: try_join3 of the three receives, then the comparisons
v_h1_verify(h) ==
    /\ h = 1 /\ pc[h] = "hash"
    /\ Arrived(h, "HashesH3toH1", 0)
    /\ Arrived(h, "HashesH3toH1", 1)
    /\ Arrived(h, "HashH2toH1", 0)
    /\ LET hash_y1 == receive(h, "HashesH3toH1", 0)
           hash_h3 == receive(h, "HashesH3toH1", 1)
           hash_h2 == receive(h, "HashH2toH1", 0)
       IN  /\ compared' = [compared EXCEPT ![h] =
                  << <<"Y1", hashes.x1, hash_y1>>,
                     <<"C from H3", hashes.a_xor_b, hash_h3>>,
                     <<"C from H2", hashes.a_xor_b, hash_h2>> >>]
           /\ vres' = [vres EXCEPT ![h] =
                  h1_checks(hashes.x1, hashes.a_xor_b, hash_y1, hash_h3, hash_h2)]
    /\ pc' = [pc EXCEPT ![h] = "verified"]
    /\ UNCHANGED <<entry, widths, active_work, seeds, records, keys, tagged, local, shuffled,
                   messages, revealed, result, net, steps, rounds, attack, aux>>

\* h2_verify: try_join of the send and the receive, then the comparison
v_h2_verify(h) ==
    /\ h = 2 /\ pc[h] = "hash"
    /\ SendsOf(h) \subseteq net
    /\ Arrived(h, "HashH3toH2", 0)
    /\ LET hash_h3 == receive(h, "HashH3toH2", 0)
       IN  /\ compared' = [compared EXCEPT ![h] = << <<"X2", hashes.x2, hash_h3>> >>]
           /\ vres' = [vres EXCEPT ![h] = h2_checks(hashes.x2, hash_h3)]
    /\ pc' = [pc EXCEPT ![h] = "verified"]
    /\ UNCHANGED <<entry, widths, active_work, seeds, records, keys, tagged, local, shuffled,
                   messages, revealed, result, net, steps, rounds, attack, aux>>

\* h3_verify: try_join3 of the three sends, then Ok(())
v_h3_verify(h) ==
    /\ h = 3 /\ pc[h] = "hash"
    /\ SendsOf(h) \subseteq net
    /\ vres' = [vres EXCEPT ![h] = Ok(<<>>)]
    /\ pc' = [pc EXCEPT ![h] = "verified"]
    /\ UNCHANGED <<entry, widths, active_work, seeds, records, keys, tagged, local, shuffled,
                   messages, revealed, compared, result, net, steps, rounds, attack,
                   aux>>

\* the steps of role h
RoleStep(h) ==
    \/ v_reveal_send(h)
    \/ v_reveal_recv(h)
    \/ v_channels(h)
    \/ v_send(h)
    \/ v_h1_verify(h)
    \/ v_h2_verify(h)
    \/ v_h3_verify(h)

NextVerify ==
    \/ \E h \in Helpers : RoleStep(h)
    \/ Deliver

SpecVerify == InitVerify /\ [][NextVerify]_vars

\* every role that can take a step takes one, and every record that was
\* sent is delivered
SpecVerifyFair ==
    /\ InitVerifyTampered
    /\ [][NextVerify]_vars
    /\ \A h \in Helpers : WF_vars(RoleStep(h))
    /\ WF_vars(Deliver)


\* ======================================================== pure functions

\* Serializable::serialize of a boolean array of n bits: its bytes in order,
\* bit p of the array being bit p % 8 of byte p / 8
Serialize(bits, n) ==
    [k \in 1..Bytes(n) |->
        {p - 8 * (k - 1) : p \in {q \in bits : q >= 8 * (k - 1) /\ q < 8 * k}}]

ShardIndex_iterInclusive(self) == [i \in 1..(self + 1) |-> i - 1]

\* ShardIndex::iter: the shard indices 0, .., self - 1 in ascending order
ShardIndex_iter(self) == [i \in 1..self |-> i - 1]

peer_shards_panicsAboveOnly(shard_id, shard_count) == ~(shard_id <= shard_count)

\* peer_shards panics when the shard index is not below the shard count
peer_shards_panics(shard_id, shard_count) == ~(shard_id < shard_count)

\* the message of that panic, the values formatted in place
peer_shards_message(shard_id, shard_count) ==
    <<"Current shard index '", shard_id, "' >= '", shard_count,
      "' (total number of shards)">>

peer_shardsKeepsSelf(shard_id, shard_count) ==
    SelectSeq(ShardIndex_iter(shard_count), LAMBDA v : v # shard_id + 1)

\* peer_shards: max.iter().filter(|v| v != this)
peer_shards(shard_id, shard_count) ==
    SelectSeq(ShardIndex_iter(shard_count), LAMBDA v : v # shard_id)

\* the pairs of a row type and its tagged type that exist: byte-aligned
\* widths with B::BITS = S::BITS + 32
TaggedTypes == {<<32, 64>>, <<64, 96>>, <<112, 144>>}

\* the values of a boolean array of `bits` bits drawn as inputs
ArrayVals(bits) == {{}, {0}, {7, 8, bits - 1}, {1, bits - 8, bits - 1}}

\* the arguments of concatenate_row_and_tag: a row share and a tag share
ConcatArgsOf(w) ==
    {[sbits |-> w[1], bbits |-> w[2], row |-> <<rl, rr>>, tag |-> <<tl, tr>>] :
        rl \in {{}, {7, 8, w[1] - 1}}, rr \in ArrayVals(w[1]),
        tl \in ArrayVals(TagBits), tr \in {{0}, {1, TagBits - 8, TagBits - 1}}}

ConcatArgs == UNION {ConcatArgsOf(w) : w \in TaggedTypes}

\* ------------------------------------------------ bitwise less than prime
\* the field primes: Mersenne primes, primes of the form 2^l - 5 and one
\* prime of neither form
Primes == {7, 31, 11, 59, 13}

\* u128::BITS - prime.leading_zeros(): the bit length of the prime
RECURSIVE BitLength(_)
BitLength(n) == IF n = 0 THEN 0 ELSE 1 + BitLength(n \div 2)

\* the integer a little-endian sequence of bits stands for
RECURSIVE BitsValue(_)
BitsValue(x) == IF x = <<>> THEN 0 ELSE x[1] + 2 * BitsValue(Tail(x))

\* arithmetic on the field elements shares reconstruct to
FieldMul(a, b, prime) == (a * b) % prime
FieldSub(a, b, prime) == (a + prime - b) % prime

\* or: a + b - a * b
FieldOr(a, b, prime) == FieldSub((a + b) % prime, FieldMul(a, b, prime), prime)

\* check_if_all_ones: the product of the bits
RECURSIVE check_if_all_ones(_, _)
check_if_all_ones(x, prime) ==
    IF Len(x) = 1 THEN x[1]
    ELSE FieldMul(x[1], check_if_all_ones(Tail(x), prime), prime)

\* any_ones: the disjunction of the bits
RECURSIVE any_ones(_, _)
any_ones(x, prime) ==
    IF Len(x) = 1 THEN x[1]
    ELSE FieldOr(x[1], any_ones(Tail(x), prime), prime)

\* check_least_significant_bits panics on fewer than three bits (x[2]) and,
\* in a build with debug assertions, on a prime whose least significant bits
\* are not 011 and on an input that is not three bits long
check_least_significant_bits_panics(x, prime, debug_assertions) ==
    \/ Len(x) < 3
    \/ /\ debug_assertions
       /\ (prime % 8 # 3 \/ Len(x) # 3)

check_least_significant_bitsEqualOnly(x, prime) ==
    FieldMul(FieldMul(x[1], x[2], prime), FieldSub(1, x[3], prime), prime)

\* check_least_significant_bits: x[2] or (x[0] and x[1] and not x[2])
check_least_significant_bits(x, prime) ==
    LET least_significant_two_bits_both_one == FieldMul(x[1], x[2], prime)
        pivot_bit == x[3]
        least_significant_three_bits_all_equal_to_prime ==
            FieldMul(least_significant_two_bits_both_one,
                     FieldSub(1, pivot_bit, prime), prime)
    IN  FieldOr(pivot_bit, least_significant_three_bits_all_equal_to_prime, prime)

\* greater_than_or_equal_to_prime_trimmed panics for a prime that is neither
\* a Mersenne prime nor 2^l - 5
greater_than_or_equal_to_prime_trimmed_panics(prime) ==
    LET l == BitLength(prime)
    IN  prime # 2^l - 1 /\ prime # 2^l - 5

greater_than_or_equal_to_prime_trimmed(x, prime) ==
    LET l == BitLength(prime)
    IN  IF prime = 2^l - 1 THEN check_if_all_ones(x, prime)
        ELSE FieldMul(check_least_significant_bits(SubSeq(x, 1, 3), prime),
                      check_if_all_ones(SubSeq(x, 4, Len(x)), prime), prime)

\* greater_than_or_equal_to_prime panics for an input shorter than the prime
greater_than_or_equal_to_prime_panics(x, prime) ==
    \/ Len(x) < BitLength(prime)
    \/ greater_than_or_equal_to_prime_trimmed_panics(prime)

greater_than_or_equal_to_prime(x, prime) ==
    LET l == BitLength(prime)
    IN  IF Len(x) > l
        THEN FieldOr(any_ones(SubSeq(x, l + 1, Len(x)), prime),
                     greater_than_or_equal_to_prime_trimmed(SubSeq(x, 1, l), prime),
                     prime)
        ELSE greater_than_or_equal_to_prime_trimmed(x, prime)

\* less_than_prime: one - gtoe
less_than_prime(x, prime) ==
    FieldSub(1, greater_than_or_equal_to_prime(x, prime), prime)

\* the inputs: bit sequences one bit shorter than the prime up to
\* MaxExtraBits longer
LessThanPrimeArgs ==
    UNION {{[prime |-> q, x |-> b] : b \in [1..n -> {0, 1}]} :
             q \in Primes, n \in 1..(6 + MaxExtraBits)}

\* the inputs of a direct call of check_least_significant_bits: three and
\* four bits, every prime, builds with and without debug assertions
LeastBitsArgs ==
    UNION {{[prime |-> q, x |-> b, debug_assertions |-> dbg] :
                b \in [1..n -> {0, 1}], dbg \in BOOLEAN} :
             q \in Primes, n \in 3..4}

\* ------------------------------------------------------------ integer_mul
\* Vec::resize: x cut or filled up with `fill` to len entries
Resize(x, len, fill) == [k \in 1..len |-> IF k <= Len(x) THEN x[k] ELSE fill]

\* the little-endian bits of the natural v, len of them
ToBits(v, len) == [k \in 1..len |-> (v \div 2^(k - 1)) % 2]

\* the two's-complement integer a little-endian sequence of bits stands for
SignedValue(x) == BitsValue(x) - x[Len(x)] * 2^Len(x)

\* integer_add on operands of equal length: the sum without the carry
integer_add(a, b) == ToBits((BitsValue(a) + BitsValue(b)) % 2^Len(a), Len(a))

\* t of one round of integer_mul: i zeros, then the products of bit yb of y
\* with the first new_len - i bits of x
partial_product(x, yb, i, new_len) ==
    [k \in 1..new_len |-> IF k <= i THEN 0 ELSE yb * x[k - i]]

\* the rounds i, i + 1, .. of the loop of integer_mul over the bits of y
RECURSIVE integer_mul_loop(_, _, _, _)
integer_mul_loop(x, y, i, sum) ==
    IF i >= Len(y) THEN sum
    ELSE LET t == partial_product(x, y[i + 1], i, Len(y))
         IN  integer_mul_loop(x, y, i + 1,
                              IF i = 0 THEN t ELSE integer_add(t, sum))

\* integer_mul panics on an empty y: y[y.len() - 1]
integer_mul_panics(x, y) == Len(y) = 0

integer_mulZeroExtends(x, y) ==
    LET new_len == Len(x) + Len(y)
    IN  integer_mul_loop(Resize(x, new_len, 0), Resize(y, new_len, 0), 0, <<>>)

\* integer_mul: x filled up with zeros and y with its last bit to
\* x.len() + y.len() bits, then the sum of the partial products
integer_mul(x, y) ==
    LET new_len == Len(x) + Len(y)
    IN  integer_mul_loop(Resize(x, new_len, 0), Resize(y, new_len, y[Len(y)]), 0, <<>>)

\* the factors: every x and y of up to MaxMulBits bits
IntegerMulArgs ==
    UNION {{[x |-> a, y |-> b] : a \in [1..n -> {0, 1}], b \in [1..m -> {0, 1}]} :
             n \in 0..MaxMulBits, m \in 0..MaxMulBits}

\* -------------------------------------------------------- the mul handler
\* a u32 is the pair of its upper and its lower 16 bits
U16 == 65536
U32_MAX == <<U16 - 1, U16 - 1>>

\* offset + i as an integer, i below 2^16: a pair whose upper half is 2^16
\* when the sum does not fit 32 bits
ExactAdd(offset, i) == <<offset[1] + (offset[2] + i) \div U16, (offset[2] + i) % U16>>

\* offset + i overflows a u32
AddOverflows(offset, i) == ExactAdd(offset, i)[1] >= U16

\* offset + i as the wrapping u32 addition computes it
WrappingAdd(offset, i) == <<ExactAdd(offset, i)[1] % U16, ExactAdd(offset, i)[2]>>

\* slice::chunks: the pieces of chunk_size bytes in order, the last one
\* shorter when the length is not a multiple
chunks(body, chunk_size) ==
    [i \in 1..((Len(body) + chunk_size - 1) \div chunk_size) |->
        SubSeq(body, (i - 1) * chunk_size + 1,
               IF i * chunk_size <= Len(body) THEN i * chunk_size ELSE Len(body))]

\* handler panics when data_size is 0 (slice::chunks) and, in a build with
\* overflow checks, when offset + record_id overflows
handler_panics(offset, data_size, body, overflow_checks) ==
    \/ data_size = 0
    \/ /\ overflow_checks
       /\ \E i \in 1..Len(chunks(body, data_size)) : AddOverflows(offset, i - 1)

\* handler: the items it sends on its permit, one holding the channel id
\* and an envelope per chunk of the body
handler(identity, step, offset, data_size, body) ==
    LET channel_id == [identity |-> identity, step |-> step]
        pieces == chunks(body, data_size)
        envelopes == [i \in 1..Len(pieces) |->
                         [record_id |-> WrappingAdd(offset, i - 1),
                          payload |-> pieces[i]]]
    IN  << <<channel_id, envelopes>> >>

\* the requests: offsets at both ends of the u32 range and around a carry
\* into the upper half, data sizes from 0, bodies of up to MaxBodyLen bytes
HandlerArgs ==
    {[identity |-> id, step |-> "test", offset |-> o, data_size |-> d, body |-> b] :
        id \in {"H2", "H3"},
        o \in {<<0, 0>>, <<0, 1>>, <<0, U16 - 1>>, <<U16 - 1, U16 - 2>>, U32_MAX},
        d \in 0..(MaxBodyLen - 1),
        b \in UNION {[1..n -> {0, 7}] : n \in 0..MaxBodyLen}}

\* the shard indices iter is called on
IterArgs == {[self |-> n] : n \in 0..MaxShards}

\* ------------------------------------------------- splitting of tagged rows
\* the pairs of types split_row_and_tag is called with: the tagged types and
\* a row type of 20 bits, whose 3 bytes have 4 padding bits
SplitTypes == TaggedTypes \cup {<<20, 52>>}

\* the values of a tagged type split_row_and_tag is called with; for the row
\* type of 20 bits those with bit 20 or 21 set have a padding bit of the row
\* bytes set
SplitArgs ==
    UNION {{[sbits |-> w[1], bbits |-> w[2], row_with_tag |-> x] :
                x \in ArrayVals(w[2]) \cup {{w[1] - 1}, {w[1]}, {0, w[1] + 9},
                                            {1, w[1] + 1, w[1] + 10}}} :
           w \in SplitTypes}

\* the row shares and tag shares that are tagged and then truncated
TruncateArgs ==
    UNION {{[sbits |-> w[1], bbits |-> w[2], rows |-> rs, tags |-> ts] :
                rs \in [1..m -> {<<{0}, {1, w[1] - 1}>>, <<{7, 8, w[1] - 1}, {}>>}],
                ts \in [1..m -> {<<{0}, {TagBits - 1}>>, <<{1, TagBits - 4}, {}>>}]} :
           w \in TaggedTypes, m \in 0..MaxRows}

\* ---------------------------------------------------- hashing of tagged rows
\* the bits of a tagged row that hold the value d in 32-bit column j, the
\* tag column being the one after the last column of the row
ColumnBits(j, d, sbits) ==
    IF j = amount_of_keys(sbits) + 1 THEN {8 * Bytes(sbits) + p : p \in d}
    ELSE {TagBits * (j - 1) + p : p \in d}

\* the row r with the tag that is its inner product with the keys
TaggedWith(r, ks, sbits) ==
    ConcatBytes(r, InnerProduct(to_gf32bit(r, sbits), ks), sbits)

\* key vectors in the clear: every key zero or not
KeyVectors(n) == [1..n -> {Gf32Bit_ZERO, {1, TagBits - 1}}]

\* the inputs of the hashing of tagged rows: a row, keys, two shares a and b
\* of the tagged row, and a difference d in column j
HashArgsOf(w) ==
    {[sbits |-> w[1], bbits |-> w[2], row |-> r, clear_keys |-> ks, a |-> a, b |-> b,
      d |-> d, j |-> j] :
        r \in ArrayVals(w[1]), ks \in KeyVectors(amount_of_keys(w[1])),
        a \in {{}, {0, w[1] - 1, w[2] - 1}}, b \in {{1}, {0, 8, w[2] - 2}},
        d \in {{0}, {1, 15}}, j \in 1..(amount_of_keys(w[1]) + 1)}

HashArgs == HashArgsOf(<<32, 64>>) \cup HashArgsOf(<<112, 144>>)

\* the shard configurations: an index and a count, the index possibly not
\* below the count
ShardArgs ==
    {[shard_id |-> i, shard_count |-> n] : i \in 0..MaxShards, n \in 0..MaxShards}

InitPure ==
    /\ ShuffleIdle
    /\ NoFailure
    /\ NoVerify
    /\ NoJoin
    /\ NoShards
    /\ NoSharded
    /\ ret = NotReturned
    /\ \/ call = "concatenate_row_and_tag" /\ arg \in ConcatArgs
       \/ call = "peer_shards" /\ arg \in ShardArgs
       \/ call = "ShardIndex_iter" /\ arg \in IterArgs
       \/ call = "compute_and_hash_tags" /\ arg \in HashArgs
       \/ call = "split_row_and_tag" /\ arg \in SplitArgs
       \/ call = "truncate_tags" /\ arg \in TruncateArgs
       \/ call = "integer_mul" /\ arg \in IntegerMulArgs
       \/ call = "check_least_significant_bits" /\ arg \in LeastBitsArgs
       \/ call = "handler" /\ arg \in HandlerArgs
       \/ /\ call = "less_than_prime"
          /\ arg \in {a \in LessThanPrimeArgs :
                        /\ Len(a.x) >= BitLength(a.prime) - 1
                        /\ Len(a.x) <= BitLength(a.prime) + MaxExtraBits}

Returned(v) == [status |-> "Ok", value |-> v]
Panicked == [status |-> "Panic"]
PanickedWith(message) == [status |-> "Panic", message |-> message]

Call_concatenate_row_and_tag ==
    /\ call = "concatenate_row_and_tag" /\ ret = NotReturned
    /\ ret' = IF concatenate_row_and_tag_panics(arg.row, arg.tag, arg.sbits, arg.bbits)
              THEN Panicked
              ELSE Returned(concatenate_row_and_tag(arg.row, arg.tag, arg.sbits, arg.bbits))
    /\ UNCHANGED <<shuffle_vars, failure, shard_vars, join_vars, verify_vars, sharded_vars, call, arg>>

Call_peer_shards ==
    /\ call = "peer_shards" /\ ret = NotReturned
    /\ ret' = IF peer_shards_panics(arg.shard_id, arg.shard_count)
              THEN PanickedWith(peer_shards_message(arg.shard_id, arg.shard_count))
              ELSE Returned(peer_shards(arg.shard_id, arg.shard_count))
    /\ UNCHANGED <<shuffle_vars, failure, shard_vars, join_vars, verify_vars, sharded_vars, call, arg>>

Call_ShardIndex_iter ==
    /\ call = "ShardIndex_iter" /\ ret = NotReturned
    /\ ret' = Returned(ShardIndex_iter(arg.self))
    /\ UNCHANGED <<shuffle_vars, failure, shard_vars, join_vars, verify_vars, sharded_vars, call, arg>>

\* compute_and_hash_tags as the verifying roles call it: on the tagged row,
\* on the sum of two of its shares, on the third share, and on the tagged
\* row with the difference added
Call_compute_and_hash_tags ==
    /\ call = "compute_and_hash_tags" /\ ret = NotReturned
    /\ LET tagged_row == TaggedWith(arg.row, arg.clear_keys, arg.sbits)
           revealed_keys == reveal_keys(arg.clear_keys)
           hash_of(x) == compute_and_hash_tags(revealed_keys, <<x>>, arg.sbits, arg.bbits)
       IN  ret' = Returned([tagged |-> hash_of(tagged_row),
                            a_xor_b |-> hash_of(Xor(arg.a, arg.b)),
                            c |-> hash_of(Xor(Xor(arg.a, arg.b), tagged_row)),
                            changed |-> hash_of(Xor(tagged_row,
                                            ColumnBits(arg.j, arg.d, arg.sbits)))])
    /\ UNCHANGED <<shuffle_vars, failure, shard_vars, join_vars, verify_vars, sharded_vars, call, arg>>

Call_split_row_and_tag ==
    /\ call = "split_row_and_tag" /\ ret = NotReturned
    /\ ret' = IF split_row_and_tag_panics(arg.sbits, arg.bbits)
              THEN Panicked
              ELSE Returned(split_row_and_tag(arg.row_with_tag, arg.sbits, arg.bbits))
    /\ UNCHANGED <<shuffle_vars, failure, shard_vars, join_vars, verify_vars, sharded_vars, call, arg>>

\* the rows are tagged as compute_and_add_tags tags them; the call returns
\* what split_row_and_tag makes of both shares of every tagged row and what
\* truncate_tags makes of the tagged rows
Call_truncate_tags ==
    /\ call = "truncate_tags" /\ ret = NotReturned
    /\ LET shares_and_tags ==
               [i \in 1..Len(arg.rows) |->
                   concatenate_row_and_tag(arg.rows[i], arg.tags[i], arg.sbits, arg.bbits)]
       IN  ret' = IF \/ split_row_and_tag_panics(arg.sbits, arg.bbits)
                    \/ \E i \in 1..Len(arg.rows) :
                          concatenate_row_and_tag_panics(arg.rows[i], arg.tags[i],
                                                         arg.sbits, arg.bbits)
                 THEN Panicked
                 ELSE Returned(
                     [rows |-> truncate_tags(shares_and_tags, arg.sbits, arg.bbits),
                      left |-> [i \in 1..Len(arg.rows) |->
                          split_row_and_tag(Left(shares_and_tags[i]), arg.sbits, arg.bbits)],
                      right |-> [i \in 1..Len(arg.rows) |->
                          split_row_and_tag(Right(shares_and_tags[i]), arg.sbits, arg.bbits)]])
    /\ UNCHANGED <<shuffle_vars, failure, shard_vars, join_vars, verify_vars, sharded_vars, call, arg>>

Call_less_than_prime ==
    /\ call = "less_than_prime" /\ ret = NotReturned
    /\ ret' = IF greater_than_or_equal_to_prime_panics(arg.x, arg.prime)
              THEN Panicked
              ELSE Returned(less_than_prime(arg.x, arg.prime))
    /\ UNCHANGED <<shuffle_vars, failure, shard_vars, join_vars, verify_vars, sharded_vars, call, arg>>

Call_check_least_significant_bits ==
    /\ call = "check_least_significant_bits" /\ ret = NotReturned
    /\ ret' = IF check_least_significant_bits_panics(arg.x, arg.prime,
                                                     arg.debug_assertions)
              THEN Panicked
              ELSE Returned(check_least_significant_bits(arg.x, arg.prime))
    /\ UNCHANGED <<shuffle_vars, failure, shard_vars, join_vars, verify_vars, sharded_vars, call, arg>>

Call_integer_mul ==
    /\ call = "integer_mul" /\ ret = NotReturned
    /\ ret' = IF integer_mul_panics(arg.x, arg.y)
              THEN Panicked
              ELSE Returned(integer_mul(arg.x, arg.y))
    /\ UNCHANGED <<shuffle_vars, failure, shard_vars, join_vars, verify_vars, sharded_vars, call, arg>>

\* a call of the mul handler, in a build with or without overflow checks
Call_handler ==
    /\ call = "handler" /\ ret = NotReturned
    /\ \E overflow_checks \in BOOLEAN :
          ret' = IF handler_panics(arg.offset, arg.data_size, arg.body, overflow_checks)
                 THEN Panicked
                 ELSE Returned(handler(arg.identity, arg.step, arg.offset,
                                       arg.data_size, arg.body))
    /\ UNCHANGED <<shuffle_vars, failure, shard_vars, join_vars, verify_vars, sharded_vars, call, arg>>

NextPure ==
    \/ Call_handler
    \/ Call_integer_mul
    \/ Call_concatenate_row_and_tag
    \/ Call_peer_shards
    \/ Call_ShardIndex_iter
    \/ Call_less_than_prime
    \/ Call_check_least_significant_bits
    \/ Call_compute_and_hash_tags
    \/ Call_split_row_and_tag
    \/ Call_truncate_tags

SpecPure == InitPure /\ [][NextPure]_vars

\* ============================================ compute_and_add_tags, called
\* directly: the rows are tagged side by side, at most active_work at a time


\* the boolean array types the source names
ArrayTypes == {20, 32, 64, 112, 144}

\* a call: the row type, the tagged type, the number of keys, the row shares,
\* the tag share the multiplications of each row add up to, the active work
\* of the context and whether the build checks debug assertions
TagArgsOf(sbits, bbits, m) ==
    {[sbits |-> sbits, bbits |-> bbits, n_keys |-> n, rows |-> rs, tags |-> ts,
      active_work |-> w, debug_assertions |-> dbg] :
        n \in {0, amount_of_keys(sbits)},
        rs \in [1..m -> {<<{0}, {1, sbits - 1}>>, <<{7, 8}, {}>>}],
        ts \in [1..m -> {<<{0}, {TagBits - 1}>>, <<{1, TagBits - 4}, {2}>>}],
        w \in 1..MaxActiveWork, dbg \in BOOLEAN}

TagArgs ==
    UNION {TagArgsOf(sbits, bbits, m) :
               sbits \in ArrayTypes, bbits \in ArrayTypes, m \in 0..MaxRows}

InitTags ==
    /\ ShuffleIdle
    /\ NoFailure
    /\ NoVerify
    /\ NoShards
    /\ NoSharded
    /\ call = "compute_and_add_tags" /\ arg \in TagArgs
    /\ ret = NotReturned
    /\ jpc = "entry" /\ started = 0 /\ completed = {} /\ yielded = <<>>

Failed(reason) == [status |-> "Err", reason |-> reason]

\* TotalRecords::specified(0) is an error
TotalRecords_specified_fails(total) == total = 0

\* compute_and_add_tags up to seq_join: no rows are Ok at once; no keys trip
\* the debug assertion where it is compiled in, and the declaration of a
\* total of zero records where it is not
compute_and_add_tags_enter ==
    /\ jpc = "entry"
    /\ IF Len(arg.rows) = 0
       THEN ret' = Returned(<<>>) /\ jpc' = "done"
       ELSE IF arg.debug_assertions /\ arg.n_keys = 0
       THEN ret' = Panicked /\ jpc' = "done"
       ELSE IF TotalRecords_specified_fails(
                   tag_total_records(Len(arg.rows), arg.n_keys))
       THEN ret' = Failed("ZeroRecords") /\ jpc' = "done"
       ELSE jpc' = "join" /\ UNCHANGED ret
    /\ UNCHANGED <<shuffle_vars, failure, shard_vars, verify_vars, sharded_vars,
                   call, arg, started, completed, yielded>>

seq_join_has_roomOneMore == started - Len(yielded) < arg.active_work + 1

\* seq_join holds at most active_work futures that it has not yielded
seq_join_has_room == started - Len(yielded) < arg.active_work

\* seq_join takes the next row from the iterator
seq_join_start ==
    /\ jpc = "join"
    /\ started < Len(arg.rows)
    /\ seq_join_has_room
    /\ started' = started + 1
    /\ UNCHANGED <<shuffle_vars, failure, shard_vars, verify_vars, sharded_vars,
                   call, arg, ret, jpc, completed, yielded>>

\* the future of row i completes: the row is concatenated with its tag
row_future_completes(i) ==
    /\ jpc = "join"
    /\ i \in (1..started) \ completed
    /\ IF concatenate_row_and_tag_panics(arg.rows[i], arg.tags[i], arg.sbits, arg.bbits)
       THEN ret' = Panicked /\ jpc' = "done" /\ UNCHANGED completed
       ELSE completed' = completed \cup {i} /\ UNCHANGED <<ret, jpc>>
    /\ UNCHANGED <<shuffle_vars, failure, shard_vars, verify_vars, sharded_vars,
                   call, arg, started, yielded>>

seq_join_nextAnyCompleted == completed \ {yielded[k] : k \in 1..Len(yielded)}

\* the rows seq_join can yield next: the oldest one it holds
seq_join_next == {Len(yielded) + 1}

\* seq_join yields a row once its future has completed
seq_join_yield ==
    /\ jpc = "join"
    /\ \E i \in seq_join_next \cap completed : yielded' = Append(yielded, i)
    /\ UNCHANGED <<shuffle_vars, failure, shard_vars, verify_vars, sharded_vars,
                   call, arg, ret, jpc, started, completed>>

\* try_collect: the tagged rows in the order seq_join yielded them
compute_and_add_tags_return ==
    /\ jpc = "join"
    /\ Len(yielded) = Len(arg.rows)
    /\ ret' = Returned([k \in 1..Len(yielded) |->
                 concatenate_row_and_tag(arg.rows[yielded[k]], arg.tags[yielded[k]],
                                         arg.sbits, arg.bbits)])
    /\ jpc' = "done"
    /\ UNCHANGED <<shuffle_vars, failure, shard_vars, verify_vars, sharded_vars,
                   call, arg, started, completed, yielded>>

NextTags ==
    \/ compute_and_add_tags_enter
    \/ seq_join_start
    \/ \E i \in 1..MaxRows : row_future_completes(i)
    \/ seq_join_yield
    \/ compute_and_add_tags_return

SpecTags == InitTags /\ [][NextTags]_vars



\* ================================================================== claims
WidthsMatch == SBITS + TagBits = BBITS
Honest == attack.ch \in {"none", "off"}
AllDone == \A h \in Helpers : pc[h] = "done"
AllOk == \A h \in Helpers : result[h].status = "Ok"

Xor3(a, b, c) == Xor(Xor(a, b), c)

\* the value of a sequence of replicated sharings held by the three helpers
Reconstruct(f) == [i \in 1..Len(f[1]) |-> Xor3(Left(f[1][i]), Left(f[2][i]), Left(f[3][i]))]

Count(sq, v) == Cardinality({i \in 1..Len(sq) : sq[i] = v})
SameMultiset(s1, s2) ==
    /\ Len(s1) = Len(s2)
    /\ \A i \in 1..Len(s1) : Count(s1, s1[i]) = Count(s2, s1[i])

OutputRows == Reconstruct([h \in Helpers |-> result[h].rows])

\* the MAC keys in the clear, and with the ONE of the tag column appended
ClearKeys == [i \in 1..Len(keys[1]) |->
                 Xor3(Left(keys[1][i]), Left(keys[2][i]), Left(keys[3][i]))]
ClearKeysAndOne == ClearKeys \o <<Gf32Bit_ONE>>

\* the 32-bit column of the flipped bit (the tag is the last column) and the
\* key that column is multiplied with in the verification
AttackColumn ==
    IF attack.bit >= 8 * Bytes(SBITS) THEN amount_of_keys(SBITS) + 1
    ELSE (attack.bit \div TagBits) + 1
AttackKey == ClearKeysAndOne[AttackColumn]

\* C1: in an honest execution malicious_shuffle returns Ok on every helper
\* and the reconstructed output rows are the same multiset as the input rows
C1_HonestShufflePermutes ==
    (Honest /\ AllDone) =>
        /\ AllOk
        /\ \A h \in Helpers : Len(result[h].rows) = Len(records)
        /\ SameMultiset(OutputRows, records)

C1_Witness ==
    /\ Honest /\ AllDone /\ AllOk
    /\ Len(records) = 2
    /\ records[1] # records[2]
    /\ OutputRows = <<records[2], records[1]>>

\* C2: in an honest execution the two hashes of every comparison a verifying
\* role makes are identical, and verify_shuffle returns Ok at all three roles
C2_HonestHashesAgree ==
    Honest =>
        \A h \in Helpers :
            /\ \A k \in 1..Len(compared[h]) : compared[h][k][2] = compared[h][k][3]
            /\ pc[h] \in {"verified", "done"} => vres[h].status = "Ok"

C2_Witness ==
    /\ Honest
    /\ Len(records) = 2
    /\ Len(compared[1]) = 3 /\ Len(compared[2]) = 1
    /\ \A h \in Helpers : pc[h] = "verified" /\ vres[h].status = "Ok"
    /\ \E i \in 1..Len(ClearKeys) : ClearKeys[i] # Gf32Bit_ZERO

\* C3 as stated: whenever one bit of x2 was flipped on its way from H1 to H2,
\* H2's call fails with "X2 is inconsistent"
C3_Original ==
    (attack.ch = "x2" /\ pc[2] = "done") => result[2] = Err("X2 is inconsistent")

\* C3 amended: when one bit of x2 was flipped on its way from H1 to H2 and the
\* revealed key of the column of that bit is not zero (the key of the tag
\* column is ONE), H2's call fails with "X2 is inconsistent"
C3_X2FlipDetected ==
    (attack.ch = "x2" /\ pc[2] = "done" /\ AttackKey # Gf32Bit_ZERO)
        => result[2] = Err("X2 is inconsistent")

C3_Witness ==
    /\ attack.ch = "x2" /\ pc[2] = "done"
    /\ AttackColumn = 1 /\ AttackKey # Gf32Bit_ZERO
    /\ result[2] = Err("X2 is inconsistent")

\* C4 as stated: whenever one bit of y1 was flipped on its way from H2 to H3,
\* H1's call fails with "Y1 is inconsistent"
C4_Original ==
    (attack.ch = "y1" /\ pc[1] = "done") => result[1] = Err("Y1 is inconsistent")

\* C4 amended: when one bit of y1 was flipped on its way from H2 to H3 and the
\* revealed key of the column of that bit is not zero, H1's call fails with
\* "Y1 is inconsistent"
C4_Y1FlipDetected ==
    (attack.ch = "y1" /\ pc[1] = "done" /\ AttackKey # Gf32Bit_ZERO)
        => result[1] = Err("Y1 is inconsistent")

C4_Witness ==
    /\ attack.ch = "y1" /\ pc[1] = "done"
    /\ AttackColumn = 1 /\ AttackKey # Gf32Bit_ZERO
    /\ result[1] = Err("Y1 is inconsistent")

\* C5 as stated: whenever one bit of c_hat_2 was flipped on its way from H3 to
\* H2, H2's call returns Ok and H1's fails with "C from H2 is inconsistent"
C5_Original ==
    /\ (attack.ch = "c" /\ pc[2] = "done") => result[2].status = "Ok"
    /\ (attack.ch = "c" /\ pc[1] = "done")
           => result[1] = Err("C from H2 is inconsistent")

\* C5 amended: when one bit of c_hat_2 was flipped on its way from H3 to H2,
\* H2's call returns Ok, and if the revealed key of the column of that bit is
\* not zero H1's call fails with "C from H2 is inconsistent"
C5_CFlipDetected ==
    /\ (attack.ch = "c" /\ pc[2] = "done") => result[2].status = "Ok"
    /\ (attack.ch = "c" /\ pc[1] = "done" /\ AttackKey # Gf32Bit_ZERO)
           => result[1] = Err("C from H2 is inconsistent")

C5_Witness ==
    /\ attack.ch = "c" /\ pc[1] = "done" /\ pc[2] = "done"
    /\ AttackColumn = 1 /\ AttackKey # Gf32Bit_ZERO
    /\ result[2].status = "Ok"
    /\ result[1] = Err("C from H2 is inconsistent")


\* C6: on every helper rows are returned (truncate_tags is called) only after
\* that helper's verify_shuffle returned Ok, and an error of verify_shuffle is
\* what the call returns, with no rows
C6_TruncateOnlyVerified ==
    \A h \in Helpers :
        /\ (result[h].status = "Ok" \/ (\E k \in 1..Len(steps[h]) : steps[h][k] = "truncate"))
               => vres[h].status = "Ok"
        /\ (pc[h] = "done" /\ vres[h].status = "Err")
               => (result[h] = vres[h] /\ result[h].rows = <<>>)

C6_Witness ==
    \E h \in Helpers :
        /\ pc[h] = "done"
        /\ vres[h].status = "Err"
        /\ result[h] = vres[h]
        /\ Len(shuffled[h]) > 0

\* the fixed order of the steps of one invocation, each with its completion
StepOrder == <<"keys", "keys_done", "tag", "tag_done", "shuffle", "shuffle_done",
               "verify", "verify_done", "truncate">>

IsPrefix(p, q) == Len(p) <= Len(q) /\ SubSeq(q, 1, Len(p)) = p

\* C7: in both entry points every helper goes through key derivation,
\* tagging, shuffle, verification and truncation in this order, each step
\* beginning after the one before it completed; it has sent no share of a
\* key for the reveal before its shuffle step returned
C7_FixedStepOrder ==
    \A h \in Helpers :
        /\ IsPrefix(steps[h], StepOrder)
        /\ (\E m \in net : m.gate = "reveal" /\ m.src = h)
               => (Len(steps[h]) >= 6 /\ steps[h][6] = "shuffle_done")

C7_Witness ==
    /\ entry = "sharded"
    /\ Len(records) > 0
    /\ \A h \in Helpers : steps[h] = StepOrder

\* C8 as stated: on an empty input no helper performs any network operation
C8_Original ==
    (entry = "single" /\ records = <<>>) =>
        \A h \in Helpers : rounds[h] = {} /\ ~\E m \in net : m.src = h

\* C8 amended: on an empty input malicious_shuffle performs no secure
\* multiplication and no shuffle transfer; it does reveal the keys and
\* exchange the hashes before it returns
C8_EmptyInputRounds ==
    (entry = "single" /\ records = <<>>) =>
        \A h \in Helpers :
            /\ rounds[h] \subseteq {"reveal", "hash"}
            /\ ~\E m \in net : m.src = h /\ m.gate \in {"mul", "transfer_x_y", "transfer_c"}
            /\ pc[h] = "done" =>
                  /\ rounds[h] = {"reveal", "hash"}
                  /\ result[h] = Ok(<<>>)

C8_Witness ==
    /\ entry = "single" /\ records = <<>> /\ WidthsMatch
    /\ AllDone /\ AllOk
    /\ \A h \in Helpers : rounds[h] = {"reveal", "hash"}

\* C9: when width(B) # width(S) + 32 both entry points panic before anything
\* else happens: no key is generated or distributed, nothing is multiplied,
\* shuffled or revealed, no record is sent
C9_WidthMismatchPanicsFirst ==
    ~WidthsMatch =>
        /\ net = {}
        /\ \A h \in Helpers :
              /\ pc[h] \in {"start", "panicked"}
              /\ pc[h] = "panicked" => result[h] = Panic
              /\ keys[h] = <<>> /\ steps[h] = <<>> /\ rounds[h] = {}
              /\ tagged[h] = <<>> /\ revealed[h] = <<>>

C9_Witness ==
    /\ ~WidthsMatch
    /\ entry = "sharded"
    /\ Len(records) > 0
    /\ \A h \in Helpers : pc[h] = "panicked" /\ result[h] = Panic

\* the tagged rows, reconstructed from the three helpers' shares
TaggedRows == Reconstruct(tagged)
AllTagged == \A h \in Helpers : Len(tagged[h]) = Len(records)

\* C10: the reconstructed tag of every row is the inner product over Gf32Bit
\* of the row's 32-bit entries with the keys in the clear, and the row part
\* of the tagged row is the input row
C10_TagIsInnerProduct ==
    AllTagged =>
        \A i \in 1..Len(records) :
            /\ split_row_and_tag(TaggedRows[i], SBITS, BBITS)
                   = <<records[i], InnerProduct(to_gf32bit(records[i], SBITS), ClearKeys)>>
            /\ \A h \in Helpers : Right(tagged[h][i]) = Left(tagged[RightOf(h)][i])

C10_Witness ==
    /\ AllTagged
    /\ Len(records) = 2
    /\ amount_of_keys(SBITS) = 2
    /\ \A j \in 1..2 : ClearKeys[j] # Gf32Bit_ZERO
    /\ split_row_and_tag(TaggedRows[1], SBITS, BBITS)[2] \notin {Gf32Bit_ZERO, Gf32Bit_ONE}
    /\ split_row_and_tag(TaggedRows[1], SBITS, BBITS)[2]
           = InnerProduct(to_gf32bit(records[1], SBITS), ClearKeys)

\* C11: for byte-aligned widths with B::BITS = S::BITS + 32 both shares of
\* the result of concatenate_row_and_tag serialise to the bytes of the row
\* share followed by the 4 bytes of the tag share, so the tag is the trailing
\* 32 bits and the leading bits are the row
C11_ConcatLayout ==
    (call = "concatenate_row_and_tag" /\ ret # NotReturned) =>
        /\ ret.status = "Ok"
        /\ \A side \in {1, 2} :
              /\ Serialize(ret.value[side], arg.bbits)
                     = Serialize(arg.row[side], arg.sbits)
                           \o Serialize(arg.tag[side], TagBits)
              /\ {p - (arg.bbits - TagBits) :
                      p \in {q \in ret.value[side] : q >= arg.bbits - TagBits}}
                     = arg.tag[side]
              /\ {q \in ret.value[side] : q < arg.bbits - TagBits} = arg.row[side]

C11_Witness ==
    /\ call = "concatenate_row_and_tag" /\ ret # NotReturned
    /\ arg.sbits = 112
    /\ arg.row[1] # {} /\ arg.row[1] # arg.row[2]
    /\ arg.tag[1] # arg.tag[2]
    /\ ret.status = "Ok"
    /\ 143 \in ret.value[2] /\ 111 \in ret.value[1] /\ 143 \notin ret.value[1]

\* C20: for a shard index below the shard count peer_shards yields the
\* indices 0 .. shard_count - 1 without the shard's own, each once, ascending
C20_PeerShards ==
    (call = "peer_shards" /\ ret # NotReturned /\ arg.shard_id < arg.shard_count) =>
        /\ ret.status = "Ok"
        /\ Len(ret.value) = arg.shard_count - 1
        /\ {ret.value[k] : k \in 1..Len(ret.value)}
               = (0..(arg.shard_count - 1)) \ {arg.shard_id}
        /\ \A k \in 1..(Len(ret.value) - 1) : ret.value[k] < ret.value[k + 1]

C20_Witness ==
    /\ call = "peer_shards" /\ ret # NotReturned
    /\ arg.shard_id = 2 /\ arg.shard_count = 4
    /\ ret = Returned(<<0, 1, 3>>)


\* the least number of 32-bit entries that hold `bits` bits
CeilDiv32(bits) == CHOOSE n \in 0..bits : 32 * n >= bits /\ 32 * (n - 1) < bits

\* C12: in both entry points a helper that has its keys has ceil(S::BITS/32)
\* of them, as many as a row has 32-bit entries, and once it has sent its
\* multiplications there is one for every entry of every row
C12_KeyCount ==
    \A h \in Helpers :
        pc[h] \notin {"idle", "start", "keys", "panicked"} =>
            /\ Len(keys[h]) = CeilDiv32(SBITS)
            /\ \A i \in 1..Len(records) :
                  Len(to_gf32bit(records[i], SBITS)) = Len(keys[h])
            /\ {m.rid : m \in {x \in net : x.gate = "mul" /\ x.src = h}}
                  \subseteq 0..(Len(records) * CeilDiv32(SBITS) - 1)
            /\ pc[h] \notin {"tag", "tag_wait"} =>
                  {m.rid : m \in {x \in net : x.gate = "mul" /\ x.src = h}}
                      = 0..(Len(records) * CeilDiv32(SBITS) - 1)

C12_Witness ==
    /\ SBITS = 112
    /\ Len(records) = 2
    /\ \A h \in Helpers : pc[h] = "tag_wait" /\ Len(keys[h]) = 4
    /\ Cardinality({m \in net : m.gate = "mul" /\ m.src = 1}) = 8


\* the comparisons of helper h whose two hashes differ
Mismatches(h) == {k \in 1..Len(compared[h]) : compared[h][k][2] # compared[h][k][3]}

\* the reason of ShuffleValidationFailed for each comparison
ReasonOf == [l \in {"Y1", "C from H3", "C from H2", "X2"} |->
                CASE l = "Y1" -> "Y1 is inconsistent"
                  [] l = "C from H3" -> "C from H3 is inconsistent"
                  [] l = "C from H2" -> "C from H2 is inconsistent"
                  [] l = "X2" -> "X2 is inconsistent"]

\* C13: once a role has received the hashes, verify_shuffle returns
\* ShuffleValidationFailed exactly when one of the role's comparisons
\* mismatches, with a reason that names a comparison that did mismatch, and
\* Ok when all its comparisons match
C13_ErrorIffMismatch ==
    \A h \in Helpers :
        (vres[h] # NoResult /\ vres[h].reason # "MaliciousRevealFailed") =>
            /\ Len(compared[h]) = (CASE h = 1 -> 3 [] h = 2 -> 1 [] h = 3 -> 0)
            /\ vres[h].status = "Err" <=> Mismatches(h) # {}
            /\ vres[h].status = "Ok" <=> Mismatches(h) = {}
            /\ vres[h].status = "Err" =>
                  \E k \in Mismatches(h) : vres[h].reason = ReasonOf[compared[h][k][1]]

C13_Witness ==
    /\ vres[1].status = "Err"
    /\ Mismatches(1) = {3}
    /\ vres[1].reason = "C from H2 is inconsistent"
    /\ vres[2].status = "Ok" /\ Mismatches(2) = {}


\* the records helper h has sent
SentBy(h) == {m \in net : m.src = h}

\* C14: when a multiplication, a shuffle step, a reveal, a send or a receive
\* of a helper fails, its call returns that same error; from the failure on
\* the helper begins no later step, sends nothing (so repeats nothing), and
\* what it returned stays
C14_ErrorPropagates ==
    [][\A h \in Helpers :
          /\ (pc'[h] = "done" /\ failure'[h] # NoResult)
                 => (result'[h] = failure'[h] /\ result'[h].rows = <<>>)
          /\ failure[h] # NoResult =>
                 /\ failure'[h] = failure[h]
                 /\ steps'[h] = steps[h]
                 /\ {m \in net' : m.src = h} = SentBy(h)
                 /\ tagged'[h] = tagged[h] /\ shuffled'[h] = shuffled[h]
                 /\ compared'[h] = compared[h]
                 /\ pc[h] = "done" => (pc'[h] = "done" /\ result'[h] = result[h])]_vars

C14_Witness ==
    /\ entry = "sharded"
    /\ failure[2] = Err("ReceiveError")
    /\ pc[2] = "done" /\ result[2] = Err("ReceiveError")
    /\ steps[2] = <<"keys", "keys_done", "tag", "tag_done", "shuffle">>
    /\ failure[1] = Err("SendError") /\ result[1] = Err("SendError")
    /\ steps[1] = <<"keys", "keys_done", "tag", "tag_done", "shuffle", "shuffle_done">>


\* C15: every shard on which setup_keys returned Ok holds the key vector the
\* first shard generated: n keys, and at every index the key share the first
\* shard generated for that index
C15_ShardsHoldSameKeys ==
    \A s \in Shards :
        skres[s].status = "Ok" =>
            /\ Len(skres[s].rows) = n_keys
            /\ skres[s].rows = skeys[ShardIndex_FIRST]
            /\ \A i \in 1..n_keys :
                  skres[s].rows[i] = <<PrssGen(SeedLeft(1), "keys", i - 1),
                                       PrssGen(SeedRight(1), "keys", i - 1)>>

C15_Witness ==
    /\ num_shards = 3 /\ n_keys = 4
    /\ \A s \in Shards : skres[s].status = "Ok"
    /\ skres[2].rows = skres[0].rows
    /\ skres[0].rows[2] # skres[0].rows[3]

ShardedOutput ==
    Reconstruct([h \in Helpers |-> shresult[h][0].rows \o shresult[h][1].rows])

\* C17: when malicious_sharded_shuffle has returned on both shards of every
\* helper in an honest run with matching widths, it returned Ok everywhere
\* and the rows of all shards together are the same multiset as the input
C17_ShardedShufflePermutes ==
    (SBITS + TagBits = BBITS /\ \A h \in Helpers : \A s \in ShardIds : shpc[h][s] = "done") =>
        /\ \A h \in Helpers : \A s \in ShardIds : shresult[h][s].status = "Ok"
        /\ \A h \in Helpers : Len(shresult[h][0].rows) = out_split
        /\ SameMultiset(ShardedOutput, records)

C17_Witness ==
    /\ \A h \in Helpers : \A s \in ShardIds : shpc[h][s] = "done"
    /\ \A h \in Helpers : \A s \in ShardIds : shresult[h][s].status = "Ok"
    /\ Len(records) = 2 /\ records[1] # records[2]
    /\ in_split = 1 /\ out_split = 2
    /\ Len(shresult[1][1].rows) = 0
    /\ ShardedOutput = <<records[2], records[1]>>


\* the steps hashes travel under
HashGates == {"HashesH3toH1", "HashH2toH1", "HashH3toH2"}

\* the hash the sender computed for the label a hash message travels under
LabelledHash(m) ==
    CASE m.gate = "HashesH3toH1" /\ m.rid = 0 -> Hash(3, messages[3].y1)
      [] m.gate = "HashesH3toH1" /\ m.rid = 1 -> Hash(3, Lefts(shuffled[3]))
      [] m.gate = "HashH2toH1" /\ m.rid = 0 -> Hash(2, Rights(shuffled[2]))
      [] m.gate = "HashH3toH2" /\ m.rid = 0 -> Hash(3, messages[3].y2)

\* C18: every hash message is one of the four labelled ones, on the route of
\* its label, and carries the hash its sender computed for that label; the
\* received side of every comparison of H1 and H2 is that hash
C18_HashesMatchLabels ==
    /\ \A m \in net : m.gate \in HashGates =>
          /\ <<m.gate, m.src, m.dst, m.rid>> \in
                {<<"HashesH3toH1", 3, 1, 0>>, <<"HashesH3toH1", 3, 1, 1>>,
                 <<"HashH2toH1", 2, 1, 0>>, <<"HashH3toH2", 3, 2, 0>>}
          /\ m.val = LabelledHash(m)
    /\ compared[1] # <<>> =>
          /\ compared[1][1][3] = Hash(3, messages[3].y1)
          /\ compared[1][2][3] = Hash(3, Lefts(shuffled[3]))
          /\ compared[1][3][3] = Hash(2, Rights(shuffled[2]))
    /\ compared[2] # <<>> => compared[2][1][3] = Hash(3, messages[3].y2)

C18_Witness ==
    /\ compared[1] # <<>> /\ compared[2] # <<>>
    /\ compared[1][1][3] # compared[1][2][3]
    /\ compared[1][1][3] # compared[2][1][3]
    /\ compared[1][2][3] # compared[2][1][3]
    /\ \A h \in Helpers : result[h].status = "Ok"

\* C19: H3 compares nothing and never fails the validation: its
\* verification and its result are never an error, also when H1 or H2
\* report an inconsistency
C19_H3NeverFails ==
    /\ compared[3] = <<>>
    /\ vres[3].status \in {"Pending", "Ok"}
    /\ result[3].status # "Err"
    /\ (pc[3] = "done" /\ SBITS + TagBits = BBITS) => result[3].status = "Ok"

C19_Witness ==
    /\ result[3].status = "Ok"
    /\ result[1].status = "Err"
    /\ result[2].status = "Err"

\* C21: whenever the shard index is equal to or above the shard count,
\* peer_shards panics at the call, yields nothing, and the message names the
\* index and the count
C21_PeerShardsPanics ==
    (call = "peer_shards" /\ ret # NotReturned /\ arg.shard_id >= arg.shard_count) =>
        /\ ret.status = "Panic"
        /\ DOMAIN ret = {"status", "message"}
        /\ ret.message[2] = arg.shard_id
        /\ ret.message[4] = arg.shard_count

C21_Witness ==
    /\ call = "peer_shards" /\ arg.shard_id = 3 /\ arg.shard_count = 3
    /\ ret = PanickedWith(<<"Current shard index '", 3, "' >= '", 3,
                            "' (total number of shards)">>)

\* C22: ShardIndex(n).iter() yields exactly 0, 1, .., n - 1 in ascending
\* order, without n; for ShardIndex::FIRST it yields nothing
C22_IterYieldsPredecessors ==
    (call = "ShardIndex_iter" /\ ret # NotReturned) =>
        /\ ret.status = "Ok"
        /\ Len(ret.value) = arg.self
        /\ \A k \in 1..Len(ret.value) : ret.value[k] = k - 1
        /\ arg.self = ShardIndex_FIRST => ret.value = <<>>

C22_Witness ==
    /\ call = "ShardIndex_iter" /\ arg.self = 3
    /\ ret = Returned(<<0, 1, 2>>)

\* C23: for a prime that is a Mersenne prime or 2^l - 5 and a little-endian
\* input of at least l bits, less_than_prime returns 1 if the integer the
\* bits stand for is below the prime and 0 otherwise, high bits included
C23_LessThanPrime ==
    (/\ call = "less_than_prime" /\ ret # NotReturned
     /\ arg.prime \in {2^BitLength(arg.prime) - 1, 2^BitLength(arg.prime) - 5}
     /\ Len(arg.x) >= BitLength(arg.prime)) =>
        /\ ret.status = "Ok"
        /\ ret.value = IF BitsValue(arg.x) < arg.prime THEN 1 ELSE 0

C23_Witness ==
    /\ call = "less_than_prime" /\ ret = Returned(0)
    /\ arg.prime = 59 /\ Len(arg.x) = 8
    /\ BitsValue(arg.x) = 64 + 3

\* C24: for x of n bits read as an unsigned integer and y of m >= 1 bits
\* read as a two's-complement integer, integer_mul returns n + m bits whose
\* two's-complement value is x times y
C24_IntegerMul ==
    (call = "integer_mul" /\ ret # NotReturned /\ Len(arg.y) >= 1) =>
        /\ ret.status = "Ok"
        /\ Len(ret.value) = Len(arg.x) + Len(arg.y)
        /\ SignedValue(ret.value) = BitsValue(arg.x) * SignedValue(arg.y)

C24_Witness ==
    /\ call = "integer_mul" /\ ret # NotReturned
    /\ arg.x = <<1, 1, 1>> /\ arg.y = <<1, 0, 1>>
    /\ ret.status = "Ok"
    /\ SignedValue(ret.value) = 0 - 21

\* the request's body is k chunks of data_size bytes
WholeChunks == arg.data_size >= 1 /\ Len(arg.body) % arg.data_size = 0

\* the handler pushed one item keyed by the request's identity and step,
\* with one envelope per chunk, in body order, with record ids counted
\* from `first`
PushedChunks(first) ==
    /\ ret.status = "Ok"
    /\ Len(ret.value) = 1
    /\ ret.value[1][1] = [identity |-> arg.identity, step |-> arg.step]
    /\ Len(ret.value[1][2]) = Len(arg.body) \div arg.data_size
    /\ \A i \in 1..Len(ret.value[1][2]) :
          /\ ret.value[1][2][i].record_id = ExactAdd(first, i - 1)
          /\ ret.value[1][2][i].payload =
                SubSeq(arg.body, (i - 1) * arg.data_size + 1, i * arg.data_size)

\* C25: for a body of k * data_size bytes and offset o the handler pushes
\* exactly one item, keyed by (identity, step), with k envelopes in body
\* order, envelope i with record id o + i and the i-th chunk as payload
C25_HandlerEnvelopes ==
    (call = "handler" /\ ret # NotReturned /\ WholeChunks) => PushedChunks(arg.offset)

\* C25 restricted to the requests whose record ids all fit a u32
C25_HandlerEnvelopesInRange ==
    (/\ call = "handler" /\ ret # NotReturned /\ WholeChunks
     /\ \A i \in 1..(Len(arg.body) \div arg.data_size) :
           ~AddOverflows(arg.offset, i - 1)) => PushedChunks(arg.offset)

\* a request whose second record id does not fit a u32 was handled without
\* overflow checks: the second envelope has record id 0
C25_Witness ==
    /\ call = "handler" /\ arg.offset = U32_MAX
    /\ arg.data_size = 2 /\ Len(arg.body) = 4
    /\ ret.status = "Ok"
    /\ ret.value[1][2][2].record_id = <<0, 0>>

\* the first of H1's comparisons that mismatches, in the order Y1, C from
\* H3, C from H2
FirstMismatch == CHOOSE k \in Mismatches(1) : \A j \in Mismatches(1) : k <= j

\* C26: h1_verify reports the first mismatch in the order Y1, C from H3,
\* C from H2: "C from H3" only if Y1 matched, "C from H2" only if both
\* earlier comparisons matched
C26_FirstMismatchReported ==
    vres[1].status = "Err" =>
        /\ Mismatches(1) # {}
        /\ vres[1].reason = ReasonOf[compared[1][FirstMismatch][1]]
        /\ vres[1].reason = "C from H3 is inconsistent" => 1 \notin Mismatches(1)
        /\ vres[1].reason = "C from H2 is inconsistent" => Mismatches(1) = {3}

C26_Witness ==
    /\ Mismatches(1) = {2, 3}
    /\ result[1] = Err("C from H3 is inconsistent")

\* C27: H1 decides only after its three hashes have arrived, and what it
\* decides is fixed by the hashes alone, whatever order they arrived in
C27_H1OrderIndependent ==
    vres[1] # NoResult =>
        /\ Len(arrival) = 3
        /\ vres[1] = h1_checks(hashes.x1, hashes.a_xor_b, hashes.y1, hashes.c_h3,
                               hashes.c_h2)

C27_Witness ==
    /\ Len(arrival) = 3
    /\ arrival[1].gate = "HashH2toH1"
    /\ arrival[2].gate = "HashesH3toH1" /\ arrival[2].rid = 1
    /\ arrival[3].rid = 0
    /\ hashes.y1 # hashes.c_h3
    /\ vres[1] = Ok(<<>>)

\* the two parts role h is sent in the reveal of some key differ
RevealFails(h) ==
    \E i \in 1..Len(keys[h]) : Left(keys[LeftOf(h)][i]) # Right(keys[RightOf(h)][i])

TotalsOf(gate, side) == {d[4] : d \in {e \in declared : e[1] = gate /\ e[3] = side}}

\* the records of step `gate` in the set of records msgs
RecordsOf(gate, msgs) == {m \in msgs : m.gate = gate}

\* C29: on each verification channel the sender and the receiver declare
\* the same total, 2 from H3 to H1, 1 from H2 to H1 and 1 from H3 to H2;
\* every record id is below the total and used once, and when all roles
\* are through as many records were sent and received as declared
C29_DeclaredTotals ==
    \A gate \in HashGates :
        LET total == IF gate = "HashesH3toH1" THEN 2 ELSE 1
        IN  /\ TotalsOf(gate, "send") \subseteq {total}
            /\ TotalsOf(gate, "recv") \subseteq {total}
            /\ \A m \in RecordsOf(gate, net) :
                  /\ TotalsOf(gate, "send") = {total}
                  /\ m.rid < total
                  /\ \A o \in RecordsOf(gate, net) : o.rid = m.rid => o = m
            /\ (\A h \in Helpers : pc[h] = "verified") =>
                  /\ Cardinality(RecordsOf(gate, net)) = total
                  /\ Cardinality(RecordsOf(gate, delivered)) = total
                  /\ TotalsOf(gate, "recv") = {total}

C29_Witness ==
    /\ \A h \in Helpers : pc[h] = "verified"
    /\ Cardinality(RecordsOf("HashesH3toH1", delivered)) = 2
    /\ Cardinality(RecordsOf("HashH2toH1", delivered)) = 1
    /\ Cardinality(RecordsOf("HashH3toH2", delivered)) = 1
    /\ Cardinality(declared) = 6

\* C30: reveal_keys returns one entry more than there are key shares: entry i
\* is the value key share i opens to, in the order of the shares whatever
\* order the reveals complete in, and the last entry is ONE; a helper reveals
\* its keys once per call of verify_shuffle, one record per key share and peer
C30_RevealKeys ==
    \A h \in Helpers :
        revealed[h] # <<>> =>
            /\ Len(revealed[h]) = Len(keys[h]) + 1
            /\ \A i \in 1..Len(keys[h]) : revealed[h][i] = ClearKeys[i]
            /\ revealed[h][Len(keys[h]) + 1] = Gf32Bit_ONE
            /\ Cardinality({k \in 1..Len(steps[h]) : steps[h][k] = "verify"}) = 1
            /\ \A d \in Helpers \ {h} :
                  Cardinality({m \in net : m.gate = "reveal" /\ m.src = h /\ m.dst = d})
                      = Len(keys[h])

C30_Witness ==
    /\ \A h \in Helpers : Len(keys[h]) = 2 /\ revealed[h] # <<>>
    /\ ClearKeys[1] # ClearKeys[2]
    /\ \A h \in Helpers : revealed[h] = ClearKeysAndOne

\* the value hashed for the one row of a hash the call returned
HashedValue(hash) == hash[3][1]

\* C31: the value compute_and_hash_tags derives from a row with its correct
\* tag, under the revealed keys followed by ONE, is zero; and the value of
\* the sum of two shares of that tagged row equals the value of the third
C31_TaggedRowHashesToZero ==
    (call = "compute_and_hash_tags" /\ ret # NotReturned) =>
        /\ ret.status = "Ok"
        /\ ret.value.tagged = compute_possibly_empty_hash(<<Gf32Bit_ZERO>>)
        /\ ret.value.a_xor_b = ret.value.c

C31_Witness ==
    /\ call = "compute_and_hash_tags" /\ ret # NotReturned
    /\ arg.sbits = 112
    /\ \A k \in 1..4 : arg.clear_keys[k] # Gf32Bit_ZERO
    /\ InnerProduct(to_gf32bit(arg.row, arg.sbits), arg.clear_keys)
           \notin {Gf32Bit_ZERO, Gf32Bit_ONE}
    /\ HashedValue(ret.value.tagged) = Gf32Bit_ZERO
    /\ HashedValue(ret.value.c) # Gf32Bit_ZERO
    /\ ret.value.a_xor_b = ret.value.c

\* the key the difference of a call is multiplied with: the key of its
\* column, ONE for the tag column
ColumnKey == reveal_keys(arg.clear_keys)[arg.j]

\* C32: adding a nonzero difference d to column j of a row changes the value
\* recomputed for the row by d times key j, by d itself in the tag column; a
\* change of the tag column always changes what is hashed, a change of a data
\* column changes it exactly when the revealed key of the column is not zero
C32_DifferenceTimesKey ==
    (call = "compute_and_hash_tags" /\ ret # NotReturned) =>
        /\ HashedValue(ret.value.changed)
               = Xor(HashedValue(ret.value.tagged), GfMul(arg.d, ColumnKey))
        /\ arg.j = amount_of_keys(arg.sbits) + 1 =>
               /\ HashedValue(ret.value.changed)
                      = Xor(HashedValue(ret.value.tagged), arg.d)
               /\ ret.value.changed # ret.value.tagged
        /\ arg.j <= amount_of_keys(arg.sbits) =>
               (ret.value.changed # ret.value.tagged
                    <=> arg.clear_keys[arg.j] # Gf32Bit_ZERO)

C32_Witness ==
    /\ call = "compute_and_hash_tags" /\ ret # NotReturned
    /\ arg.sbits = 112 /\ arg.j = 3 /\ arg.d = {1, 15}
    /\ arg.clear_keys[3] # Gf32Bit_ZERO
    /\ HashedValue(ret.value.changed) = GfMul(arg.d, arg.clear_keys[3])
    /\ HashedValue(ret.value.changed) \notin {Gf32Bit_ZERO, arg.d}

\* the multiplication records helper h has sent
MulsOf(h) == {msg \in net : msg.gate = "mul" /\ msg.src = h}

\* the rows whose multiplications helper h has issued: while it waits in
\* compute_and_add_tags the rows it has yielded and the active_work after
\* them, all rows once the call has returned
RowsBegun(h) ==
    LET m == Len(InputShares(h))
        w == Len(tagged[h]) + active_work
    IN  IF pc[h] = "tag_wait" THEN 1..(IF w < m THEN w ELSE m) ELSE 1..m

\* the 32-bit entries of a row of helper h
RowEntries(h) == amount_of_keys(SBITS)

\* the columns compute_and_add_tags multiplies per row: the zip pairs the
\* entries of a row with as many keys
ColumnsPerRow(h) ==
    IF Len(keys[h]) < RowEntries(h) THEN Len(keys[h]) ELSE RowEntries(h)

TaggedOf(i) == concatenate_row_and_tag(arg.rows[i], arg.tags[i], arg.sbits, arg.bbits)

\* C34: whatever order the per-row tag computations complete in,
\* compute_and_add_tags returns as many tagged rows as input rows, output i
\* being input row i with its own tag, and never more than active_work rows
\* are being processed at a time
C34_TagsInInputOrder ==
    call = "compute_and_add_tags" =>
        /\ started - Len(yielded) <= arg.active_work
        /\ Cardinality((1..started) \ completed) <= arg.active_work
        /\ ret.status = "Ok" =>
               /\ Len(ret.value) = Len(arg.rows)
               /\ \A i \in 1..Len(arg.rows) : ret.value[i] = TaggedOf(i)

C34_Witness ==
    /\ call = "compute_and_add_tags" /\ ret.status = "Pending"
    /\ Len(arg.rows) = 2 /\ arg.active_work = 2
    /\ TaggedOf(1) # TaggedOf(2)
    /\ started = 2 /\ completed = {2} /\ yielded = <<>>

\* C35 as stated: compute_and_add_tags called with no keys and at least one
\* row panics; it returns neither Ok nor an error value
C35_EmptyKeysPanic ==
    (call = "compute_and_add_tags" /\ arg.n_keys = 0 /\ Len(arg.rows) > 0
        /\ ret # NotReturned) => ret = Panicked

C35_Witness ==
    /\ call = "compute_and_add_tags" /\ arg.n_keys = 0 /\ Len(arg.rows) > 0
    /\ arg.debug_assertions
    /\ ret = Panicked

\* C36: compute_and_add_tags called with rows and a pair of widths where
\* width(B) is not width(S) + 32 panics when it concatenates a row and its
\* tag; it returns no tagged row
C36_BadWidthsPanic ==
    (call = "compute_and_add_tags" /\ arg.bbits # arg.sbits + TagBits
        /\ Len(arg.rows) > 0 /\ arg.n_keys > 0) =>
            /\ ret.status \in {"Pending", "Panic"}
            /\ ret.status = "Panic" => completed = {} /\ yielded = <<>>
            /\ jpc = "done" => (ret = Panicked /\ started >= 1)

C36_Witness ==
    /\ call = "compute_and_add_tags" /\ arg.sbits = 20 /\ arg.bbits = 32
    /\ Len(arg.rows) = 2 /\ arg.n_keys = 1
    /\ started = 2 /\ ret = Panicked

\* the bytes of the row and the bits of the tag in the value a call of
\* split_row_and_tag was given
RowBytes == {p \in arg.row_with_tag : p < 8 * Bytes(arg.sbits)}
TagPart == {p - 8 * Bytes(arg.sbits) : p \in arg.row_with_tag \ RowBytes}

\* C37: for consistent widths split_row_and_tag returns a pair of a row and
\* a tag for every value of the tagged type, without error or panic; a row
\* whose bytes do not deserialize is the default value, and the tag is still
\* the one of the input
C37_SplitAlwaysReturns ==
    (call = "split_row_and_tag" /\ ret # NotReturned) =>
        /\ ret.status = "Ok"
        /\ ret.value[1] = (IF \E p \in RowBytes : p >= arg.sbits THEN {} ELSE RowBytes)
        /\ ret.value[2] = TagPart

C37_Witness ==
    /\ call = "split_row_and_tag" /\ ret # NotReturned
    /\ arg.sbits = 20 /\ arg.row_with_tag = {1, 21, 30}
    /\ DeserializeFails(RowBytes, arg.sbits)
    /\ ret.value[1] = {} /\ ret.value[2] = {6}

\* C38: splitting undoes concatenation: split_row_and_tag of the left and of
\* the right share of concatenate_row_and_tag(r, t) is (r.left, t.left) and
\* (r.right, t.right), and truncate_tags returns the rows that were tagged,
\* as many and in the same order
C38_SplitUndoesConcat ==
    (call = "truncate_tags" /\ ret # NotReturned) =>
        /\ ret.status = "Ok"
        /\ ret.value.rows = arg.rows
        /\ \A i \in 1..Len(arg.rows) :
              /\ ret.value.left[i] = <<Left(arg.rows[i]), Left(arg.tags[i])>>
              /\ ret.value.right[i] = <<Right(arg.rows[i]), Right(arg.tags[i])>>

C38_Witness ==
    /\ call = "truncate_tags" /\ ret # NotReturned
    /\ arg.sbits = 112 /\ Len(arg.rows) = 2
    /\ arg.rows[1] # arg.rows[2] /\ arg.tags[1] # arg.tags[2]
    /\ Left(arg.rows[1]) # Right(arg.rows[1])
    /\ ret.value.rows = arg.rows

\* the records the first shard has sent, each with the shard it was sent to
KeyRecords == UNION {{<<s, m>> : m \in chan[s]} : s \in Shards}

\* C39: in setup_keys with n keys and s shards the first shard sends to each
\* other shard every key index once, key i under record id i, and nothing to
\* itself: n*(s-1) records when it has returned Ok; the total declared on
\* the key distribution channel is n, and no other shard generates or sends
\* keys
C39_KeyDistribution ==
    /\ chan[ShardIndex_FIRST] = {}
    /\ \A s \in Shards :
          /\ \A m \in chan[s] :
                /\ m.rid \in 0..(key_dist_total_records(n_keys) - 1)
                /\ m.val = skeys[ShardIndex_FIRST][m.rid + 1]
          /\ Cardinality(chan[s]) = Cardinality({m.rid : m \in chan[s]})
          /\ s # ShardIndex_FIRST =>
                /\ skpc[s] # "sending"
                /\ \A k \in 1..Len(skeys[s]) : skeys[s][k] = ChannelItem(s, k - 1).val
    /\ skres[ShardIndex_FIRST].status = "Ok" =>
          /\ \A s \in Shards \ {ShardIndex_FIRST} :
                {m.rid : m \in chan[s]} = 0..(n_keys - 1)
          /\ Cardinality(KeyRecords) = n_keys * (num_shards - 1)

C39_Witness ==
    /\ num_shards = 3 /\ n_keys = 4
    /\ skres[ShardIndex_FIRST].status = "Ok"
    /\ Cardinality(KeyRecords) = 8
    /\ skres[1].status = "Ok" /\ skres[2] = NoResult

\* C40: on channels that deliver every record setup_keys eventually returns
\* on every shard, for every number of shards; the first shard serves the
\* other shards in ascending order, all n keys to one shard before the first
\* key to the next
C40_SetupKeysReturns ==
    /\ [](\A s \in Shards : \A r \in Shards :
              (ShardIndex_FIRST < r /\ r < s /\ chan[s] # {})
                  => Cardinality(chan[r]) = n_keys)
    /\ <>(\A s \in Shards : skres[s].status = "Ok")

C40_Witness ==
    /\ num_shards = 4 /\ n_keys = 2
    /\ \A s \in Shards : closed[s] = "open"
    /\ Cardinality(chan[1]) = 2 /\ Cardinality(chan[2]) = 2 /\ Cardinality(chan[3]) = 1
    /\ skres[2].status = "Ok" /\ skres[1] = NoResult

====
